---- MODULE Spec2Model ----
(***************************************************************************)
(* solid-wire: the local record store (src/src/idb.ts), the sync engine    *)
(* (WireStoreService, src/src/validation.ts lines 90-207) and the public   *)
(* per-type record API, as a state machine.                                *)
(*                                                                         *)
(* A step of the model is a storage transaction or an exchange call taking *)
(* effect, together with the code that runs after it up to the next one.   *)
(* The put of a response's "updated" entries takes effect in the step in   *)
(* which the response arrives, the purge of its "deleted" ids in the step  *)
(* that ends the cycle; local writes interleave before, between and after. *)
(*                                                                         *)
(* Spec is the engine and the record API under createWireStore's Provider, *)
(* which passes no hooks, over a store whose requests succeed.  EngineSpec *)
(* leaves the engine to its own triggers, with or without an interval.     *)
(* FaultSpec adds hooks that reject and requests that fail.  TypesSpec has *)
(* two record types.  These take a storage operation as one step and do    *)
(* not look at the handle or at the subscriber list, which NotifierSpec    *)
(* and OpenSpec specify on their own, for one useIdb instance.             *)
(***************************************************************************)
EXTENDS Integers, Sequences, FiniteSets, TLC

\* ------------------------------------------------------------------ bounds

\* Unsynced-write notifications (setTimeout callbacks) scheduled and not yet run.
MaxPending == 2

\* Activations of triggerSync that can be in progress at once.  The guard on
\* `syncing` keeps the code at one; the second slot is what a missing guard
\* would use.
NSlots == 2

Slots == 1..NSlots

\* The clock: the values of new Date().getTime() are 0..MaxNow.
MaxNow == 2

\* Store operations in progress at once.
NOps == 2

OpSlots == 1..NOps

\* indexedDB.open requests made in a run.
MaxOpens == 3

\* Record ids.
Ids == {"1", "2"}

\* ------------------------------------------------------------- JS values

\* A data payload is an object, a set of fields <<key, kind, value>>, or
\* undefined.
Obj(fields) == [kind |-> "object", fields |-> fields]

undefined == [kind |-> "undefined", fields |-> {}]

SyntaxError == [kind |-> "SyntaxError", fields |-> {}]

EmptyObject == Obj({})

TitleA == Obj({<<"title", "string", "a">>})

TitleB == Obj({<<"title", "string", "b">>})

\* { title: "b", cb: () => {} }: a payload that is not JSON-serializable.
TitleBWithFunction == Obj({<<"title", "string", "b">>, <<"cb", "function", "">>})

\* The payloads handed to set().
DataInputs == {TitleA, TitleB, TitleBWithFunction, undefined}

\* The payloads an exchange response carries.
ServerData == {TitleA}

\* JSON.stringify: undefined for undefined or a function; for an object its
\* text, which leaves out the fields holding a function or undefined.
JSONstringify(v) ==
    IF v.kind = "object"
    THEN [kind |-> "json",
          fields |-> {f \in v.fields : f[2] \notin {"function", "undefined"}}]
    ELSE undefined

\* JSON.parse: the object of a JSON text; undefined is read as the text
\* "undefined", which is a SyntaxError.
JSONparse(s) ==
    IF s.kind = "json" THEN Obj(s.fields) ELSE SyntaxError

\* { ...data }: a shallow copy of an object, {} for anything else.
Spread(v) == IF v.kind = "object" THEN v ELSE EmptyObject

\* Cursor values: a string, null or undefined.
Str(s) == [kind |-> "string", s |-> s]

null == [kind |-> "null", s |-> ""]

undefinedCursor == [kind |-> "undefined", s |-> ""]

\* What an exchange response carries as syncCursor.
ResponseCursors == {undefinedCursor, null, Str(""), Str("c1")}

\* value || undefined
OrUndefined(v) ==
    IF v = null \/ v = undefinedCursor \/ v = Str("") THEN undefinedCursor ELSE v

\* ---------------------------------------------------------------- records

\* IdbRecord.  deleted = FALSE and unsynced = FALSE stand for the field being
\* absent; unsynced = TRUE is the indexed marker "true".
IdbRecord(id, type, deleted, unsynced, data) ==
    [id |-> id, type |-> type, deleted |-> deleted, unsynced |-> unsynced,
     data |-> data]

\* UnsyncedRecord / SyncedRecord.
WireRecord(id, type, state, data) ==
    [id |-> id, type |-> type, state |-> state, data |-> data]

\* ------------------------------------------------------------------ state

VARIABLES
    recordTypes,    \* the keys of config.definition
    store,          \* the "records" object store: id -> IdbRecord, for the ids that have a row
    localStorage,   \* the item under cursorKey: null when there is none
    syncing,        \* the flag of WireStoreService
    cycles,         \* per slot, the activation of triggerSync that runs in it
    timers,         \* notifyUnsyncedChanges timeouts scheduled and not yet run
    mounted,        \* onMount has run
    settled,        \* how the last set/delete call settled: "none" before any call
    lastFailed,     \* history: what the last cycle whose exchange call failed had sent
    lastCursor,     \* history: the syncCursor of the last response that was applied
    periodic,       \* props.periodic asks for an interval (true or a positive number)
    hooks,          \* props.hooks registers hooks
    syncSettled,    \* how the last promise of triggerSync to settle did: "none" before any
    unsent,         \* history: ids written locally and in no exchange call since
    subscribers,    \* useIdb: the subscribers object, id -> callback
    now,            \* new Date().getTime()
    called,         \* history: the callbacks the last notifier timeout invoked, in order
    logged,         \* history: the callbacks whose exception that timeout logged
    db,             \* useIdb: the handle variable, NoHandle for undefined
    closed,         \* the handles on which close() was called
    opening,        \* the indexedDB.open requests made and not yet completed
    issued,         \* how many indexedDB.open requests were made
    ops,            \* per slot, the store operation that runs in it
    tracker,        \* useIdb: per record type, its change token, as the number of times it was set
    lastOp,         \* history: the last put, purge or reactive read: how it ended, the types it wrote or removed
    instances,      \* per mounted Provider, the store name of its config and the namespace prop it was given
    indexedDB,      \* the origin's databases: per database name, its "records" object store
    storage,        \* the origin's localStorage: per key, its value
    lastAct,        \* history: the last set, delete or sync cycle of an instance, with the exchange call's argument
    periodicSync,   \* props.periodic, periodicSyncInterval, and what the last startPeriodicSync did
    validated,      \* the last call of validateRecordsMetadata: its arguments and how it ended
    hookCalls,      \* the hooks given to useIdb, and the put or get that is calling them
    applying,       \* the requests of the cycle that is applying a response, and what they did
    handles,        \* the unsubscribe functions listenToUnsyncedChanges returned that were not called yet
    bound,          \* the cycle of a Provider whose namespace prop changes: the store, key and namespace it started with
    cache,          \* cacheEnabled, the value of the cache signal, and the refreshes of the cache effect that are running
    engine          \* the timers of the page, the subscribers of every useIdb the memo made, and what WireStoreService holds of them

vars == <<recordTypes, store, localStorage, syncing, cycles, timers, mounted, settled, lastFailed, lastCursor,
          periodic, hooks, syncSettled, unsent,
          subscribers, now, called, logged, db, closed, opening, issued, ops, tracker, lastOp,
          instances, indexedDB, storage, lastAct, periodicSync, validated, hookCalls, applying, handles, bound, cache, engine>>

\* The state of one useIdb instance that the engine's steps do not look at.
idbVars == <<subscribers, now, called, logged, db, closed, opening, issued, ops, tracker, lastOp>>

\* The state of what the specifications of the engine, the record API and
\* the instances do not look at.
restVars == <<validated, hookCalls, applying, handles, bound, cache, engine>>

\* What the browser holds for every instance of the page's origin.
hostVars == <<instances, indexedDB, storage, lastAct>>

\* An activation of triggerSync: where it waits (pc) and its local variables.
\* written is history: the ids written locally since the activation read the
\* unsynced set.
IdleCycle ==
    [pc |-> "idle", unsynced |-> {}, syncCursor |-> undefinedCursor,
     records |-> {}, updatedSyncCursor |-> undefinedCursor,
     written |-> {}]

NoFailure == [valid |-> FALSE, ids |-> {}, syncCursor |-> undefinedCursor]

\* db when it is undefined; a handle is named by the number of the open
\* request that produced it.
NoHandle == 0

\* A slot with no operation in progress.  settled is how the last operation
\* of the slot settled.
IdleOp == [kind |-> "none", pc |-> "idle", req |-> NoHandle, handle |-> NoHandle, settled |-> "none"]

\* Before the first put, purge or reactive read.
NoOp == [kind |-> "none", outcome |-> "none", ids |-> {}, failed |-> {}, types |-> {}]

\* useIdb(name, recordTypes, hooks) has returned: no subscriber, no handle,
\* and, set with recordTypes, a token per record type.
IdbConstructed ==
    /\ subscribers = [i \in {} |-> {}]
    /\ now = 0
    /\ called = <<>>
    /\ logged = <<>>
    /\ db = NoHandle
    /\ closed = {}
    /\ opening = {}
    /\ issued = 0
    /\ ops = [o \in OpSlots |-> IdleOp]
    /\ lastOp = NoOp

\* clearInterval(periodicSyncInterval) has left no interval.
NoInterval == 0

\* The value true of props.periodic.
True == [kind |-> "boolean", b |-> TRUE]

\* The interval of <Provider periodic>.
DefaultInterval == 60000

\* The values of props.periodic.  typeof NaN is "number".
Num(n) == [kind |-> "number", n |-> n]
NaN == [kind |-> "NaN"]
False == [kind |-> "boolean", b |-> FALSE]
typeof(v) == IF v.kind = "NaN" THEN "number" ELSE v.kind
isNaN(v) == v.kind = "NaN"

\* props.periodic before the effect has run: periodicSyncInterval is
\* undefined.
NotStarted(setting) == [setting |-> setting, interval |-> NoInterval, warned |-> FALSE, started |-> FALSE]

\* A startPeriodicSync that takes every number for an interval.
startPeriodicSyncAnyNumber(setting) ==
    IF setting = undefined \/ setting = null
    THEN [setting |-> setting, interval |-> NoInterval, warned |-> FALSE, started |-> TRUE]
    ELSE IF setting = True
    THEN [setting |-> setting, interval |-> DefaultInterval, warned |-> FALSE, started |-> TRUE]
    ELSE IF typeof(setting) = "number" /\ ~isNaN(setting)
    THEN [setting |-> setting, interval |-> setting.n, warned |-> FALSE, started |-> TRUE]
    ELSE [setting |-> setting, interval |-> NoInterval, warned |-> TRUE, started |-> TRUE]

\* startPeriodicSync(): the interval is cleared, then set for true and for a
\* positive number; nothing is done for undefined and null, and a warning is
\* logged for every other value.
startPeriodicSync(setting) ==
    IF setting = undefined \/ setting = null
    THEN [setting |-> setting, interval |-> NoInterval, warned |-> FALSE, started |-> TRUE]
    ELSE IF setting = True
    THEN [setting |-> setting, interval |-> DefaultInterval, warned |-> FALSE, started |-> TRUE]
    ELSE IF typeof(setting) = "number" /\ ~isNaN(setting) /\ setting.n > 0
    THEN [setting |-> setting, interval |-> setting.n, warned |-> FALSE, started |-> TRUE]
    ELSE [setting |-> setting, interval |-> NoInterval, warned |-> TRUE, started |-> TRUE]

\* Before the first set, delete or sync cycle of an instance.
NoAct == [kind |-> "none", instance |-> "", args |-> <<>>, key |-> "", result |-> undefinedCursor]

\* validateRecordsMetadata has not been called.
NotValidated == [records |-> [kind |-> "array", items |-> <<>>], types |-> {}, result |-> "none", index |-> 0]

\* No put or get is calling the hooks of the list.
NoHookCalls(list) ==
    [list |-> list, stage |-> "none", record |-> undefined, invoked |-> <<>>, running |-> {}, rejected |-> FALSE,
     done |-> "none"]

\* No response has been applied.  requests and deletes are the put and
\* delete requests the running cycle waits for, late those whose put or purge
\* has already rejected; put, purged and persisted are history: what the
\* requests of the running cycle have done, and the same for the cycle that
\* wrote the cursor item last: the entries of its response that no request
\* had applied when the item was written.
NoPersisted == [valid |-> FALSE, unapplied |-> {}]

NoApplying ==
    [requests |-> {}, deletes |-> {}, late |-> {}, put |-> {}, purged |-> {}, persisted |-> NoPersisted]

\* No cycle is running in the Provider whose namespace prop changes.
NotBound ==
    [pc |-> "idle", db |-> "", key |-> "", namespace |-> "", closed |-> FALSE,
     records |-> {}, updatedSyncCursor |-> undefinedCursor]

\* useIdb has run: cacheEnabled is false, the cache signal holds [], and the
\* first run of the effect has read the change token and started no refresh.
NoCache == [enabled |-> FALSE, value |-> <<>>, pending |-> <<>>]

\* WireStoreService has been called and its effect has not run: unsubscribe
\* and periodicSyncInterval are undefined, the page has no interval, and the
\* useIdb of the memo has no subscriber.
NoSubscription == [idb |-> 0, id |-> 0]

NoEngine ==
    [ran |-> FALSE, disposed |-> FALSE, setting |-> undefined, idb |-> 1,
     intervals |-> {}, issuedIntervals |-> 0, periodicSyncInterval |-> NoInterval,
     subscribers |-> {}, unsubscribe |-> NoSubscription]

\* Nothing has happened in the parts that restVars holds.
RestConstructed ==
    /\ validated = NotValidated
    /\ hookCalls = NoHookCalls(<<>>)
    /\ applying = NoApplying
    /\ handles = {}
    /\ bound = NotBound
    /\ cache = NoCache
    /\ engine = NoEngine

\* One Provider is mounted: its database is store and its cursor slot is
\* localStorage.
OneInstance ==
    /\ instances = <<>>
    /\ indexedDB = <<>>
    /\ storage = <<>>
    /\ lastAct = NoAct

\* The state after construction, whatever props.periodic is.
Constructed ==
    /\ recordTypes = {"todo"}
    /\ tracker = [t \in {"todo"} |-> 0]
    /\ store = [i \in {} |-> {}]
    /\ localStorage = null
    /\ syncing = FALSE
    /\ cycles = [c \in Slots |-> IdleCycle]
    /\ timers = 0
    /\ mounted = FALSE
    /\ settled = "none"
    /\ lastFailed = NoFailure
    /\ lastCursor = undefinedCursor
    /\ syncSettled = "none"
    /\ unsent = {}
    /\ IdbConstructed
    /\ RestConstructed
    /\ OneInstance

\* createWireStore's Provider, given periodic: it passes no hooks.
Init ==
    /\ Constructed
    /\ periodic = TRUE
    /\ periodicSync = startPeriodicSync(IF periodic THEN True ELSE undefined)
    /\ hooks = FALSE

\* The responses of the exchange: arrays of SyncedRecord with at most one
\* "updated" and at most one "deleted" entry per id.  purge reads only the id
\* of a "deleted" entry, which carries data {}.
UpdatedEntries(id) ==
    {WireRecord(id, t, "updated", d) : t \in recordTypes, d \in ServerData}

DeletedEntry(id) ==
    WireRecord(id, CHOOSE t \in recordTypes : TRUE, "deleted", EmptyObject)

EntriesFor(id) ==
    {{}} \cup {{e} : e \in UpdatedEntries(id)} \cup {{DeletedEntry(id)}}
         \cup {{e, DeletedEntry(id)} : e \in UpdatedEntries(id)}

Responses ==
    {UNION {pick[i] : i \in Ids} :
        pick \in {p \in [Ids -> UNION {EntriesFor(i) : i \in Ids}] :
                     \A i \in Ids : p[i] \in EntriesFor(i)}}

\* ------------------------------------------------------------ record store

\* objectStore.put(record) for every record of the batch: each row is
\* replaced whole, keyed by id.
put(st, records) ==
    [i \in DOMAIN st \cup {r.id : r \in records} |->
        IF \E r \in records : r.id = i
        THEN CHOOSE r \in records : r.id = i
        ELSE st[i]]

\* A purge that spares the rows still marked unsynced.
purgeSyncedOnly(st, ids) ==
    [i \in {j \in DOMAIN st : j \notin ids \/ st[j].unsynced} |-> st[i]]

\* objectStore.delete(id) for every id: ids without a row are ignored.
purge(st, ids) == [i \in DOMAIN st \ ids |-> st[i]]

\* index("unsynced").getAll("true")
getUnsynced(st) == {st[i] : i \in {j \in DOMAIN st : st[j].unsynced}}

\* A get that does not look at the deleted flag.
getIgnoringDeleted(st, type, id) ==
    IF id \notin DOMAIN st THEN undefined ELSE st[id].data

\* The public get of a type's API: the data of the row, undefined when there
\* is no row or the row is soft-deleted.  The type of the API is not read.
get(st, type, id) ==
    IF id \notin DOMAIN st THEN undefined
    ELSE IF st[id].deleted = TRUE THEN undefined
    ELSE st[id].data

\* The public all of a type's API: index("type").getAll(type), without the
\* soft-deleted rows, each row's data copied; here keyed by the row's id.
all(st, type) ==
    [i \in {j \in DOMAIN st : st[j].type = type /\ st[j].deleted # TRUE} |->
        Spread(st[i].data)]

\* ------------------------------------------------------------ sync engine

Active(c) == cycles[c].pc # "idle"

\* Every activation that has read the unsynced set notes a local write.
NoteWritten(ids) ==
    [c \in Slots |->
        IF cycles[c].pc \in {"sync", "purge"}
        THEN [cycles[c] EXCEPT !.written = @ \cup ids]
        ELSE cycles[c]]

\* triggerSync without its first line.
triggerSyncUnguarded ==
    /\ \E c \in Slots :
        /\ ~Active(c)
        /\ \A d \in Slots : d < c => Active(d)
        /\ cycles' = [cycles EXCEPT ![c].pc = "getUnsynced"]
    /\ syncing' = TRUE
    /\ UNCHANGED syncSettled

\* triggerSync up to its first await: a call made while syncing returns at
\* once; otherwise the flag is set and getUnsynced is requested.
triggerSync ==
    IF syncing
    THEN syncSettled' = "resolved" /\ UNCHANGED <<syncing, cycles>>
    ELSE /\ \E c \in Slots :
            /\ ~Active(c)
            /\ \A d \in Slots : d < c => Active(d)
            /\ cycles' = [cycles EXCEPT ![c].pc = "getUnsynced"]
         /\ syncing' = TRUE
         /\ UNCHANGED syncSettled

\* The triggers: onMount, the notifier's subscriber, the periodic interval
\* and the public sync().  onMount runs at the end of the first render, before
\* a timer, a storage request or a call made by the application can.
Mount ==
    /\ ~mounted
    /\ mounted' = TRUE
    /\ triggerSync
    /\ UNCHANGED <<recordTypes, store, localStorage, timers, settled, lastFailed, lastCursor, periodic, hooks, idbVars, hostVars, periodicSync, restVars, unsent>>

NotifierFire ==
    /\ mounted
    /\ timers > 0
    /\ timers' = timers - 1
    /\ triggerSync
    /\ UNCHANGED <<recordTypes, store, localStorage, mounted, settled, lastFailed, lastCursor, periodic, hooks, idbVars, hostVars, periodicSync, restVars, unsent>>

PeriodicTick ==
    /\ mounted
    /\ periodic
    /\ triggerSync
    /\ UNCHANGED <<recordTypes, store, localStorage, timers, mounted, settled, lastFailed, lastCursor, periodic, hooks, idbVars, hostVars, periodicSync, restVars, unsent>>

ManualSync ==
    /\ mounted
    /\ triggerSync
    /\ UNCHANGED <<recordTypes, store, localStorage, timers, mounted, settled, lastFailed, lastCursor, periodic, hooks, idbVars, hostVars, periodicSync, restVars, unsent>>

\* A translation that sends every row as "updated".
ToUnsyncedRecordUpdated(item) == WireRecord(item.id, item.type, "updated", Spread(item.data))

\* The UnsyncedRecord sent for a row.
ToUnsyncedRecord(item) ==
    WireRecord(item.id, item.type,
               IF item.deleted = TRUE THEN "deleted" ELSE "updated",
               Spread(item.data))

\* getUnsynced resolves: the unsynced rows are translated, the cursor is read
\* and the exchange is called.
GetUnsyncedResolve(c) ==
    /\ cycles[c].pc = "getUnsynced"
    /\ cycles' = [cycles EXCEPT ![c] =
                    [@ EXCEPT !.pc = "sync",
                              !.unsynced = {ToUnsyncedRecord(r) : r \in getUnsynced(store)},
                              !.syncCursor = OrUndefined(localStorage)]]
    /\ unsent' = unsent \ {r.id : r \in getUnsynced(store)}
    /\ UNCHANGED <<recordTypes, store, localStorage, syncing, timers, mounted, settled, lastFailed, lastCursor, periodic, hooks, idbVars, hostVars, periodicSync, restVars, syncSettled>>

\* An "updated" entry written with the unsynced marker.
ToIdbRecordMarked(record) == IdbRecord(record.id, record.type, FALSE, TRUE, record.data)

\* The IdbRecord written for an "updated" entry of the response.
ToIdbRecord(record) == IdbRecord(record.id, record.type, FALSE, FALSE, record.data)

\* A catch block that resets the cursor.
SyncRejectClearingCursor(c) ==
    /\ cycles[c].pc = "sync"
    /\ syncing' = FALSE
    /\ cycles' = [cycles EXCEPT ![c] = IdleCycle]
    /\ localStorage' = null
    /\ lastFailed' = [valid |-> TRUE,
                      ids |-> {r.id : r \in cycles[c].unsynced},
                      syncCursor |-> cycles[c].syncCursor]
    /\ syncSettled' = "rejected"
    /\ UNCHANGED <<recordTypes, store, timers, mounted, settled, lastCursor, periodic, hooks, idbVars, hostVars, periodicSync, restVars, unsent>>

\* A catch block that marks what was sent as synced.
SyncRejectMarkingSynced(c) ==
    /\ cycles[c].pc = "sync"
    /\ syncing' = FALSE
    /\ cycles' = [cycles EXCEPT ![c] = IdleCycle]
    /\ store' = [i \in DOMAIN store |->
                    IF i \in {r.id : r \in cycles[c].unsynced}
                    THEN [store[i] EXCEPT !.unsynced = FALSE]
                    ELSE store[i]]
    /\ lastFailed' = [valid |-> TRUE,
                      ids |-> {r.id : r \in cycles[c].unsynced},
                      syncCursor |-> cycles[c].syncCursor]
    /\ syncSettled' = "rejected"
    /\ UNCHANGED <<recordTypes, localStorage, timers, mounted, settled, lastCursor, periodic, hooks, idbVars, hostVars, periodicSync, restVars, unsent>>

\* The exchange call rejects or throws: only the finally block runs.
SyncReject(c) ==
    /\ cycles[c].pc = "sync"
    /\ syncing' = FALSE
    /\ cycles' = [cycles EXCEPT ![c] = IdleCycle]
    /\ lastFailed' = [valid |-> TRUE,
                      ids |-> {r.id : r \in cycles[c].unsynced},
                      syncCursor |-> cycles[c].syncCursor]
    /\ syncSettled' = "rejected"
    /\ UNCHANGED <<recordTypes, store, localStorage, timers, mounted, settled, lastCursor, periodic, hooks, idbVars, hostVars, periodicSync, restVars, unsent>>

\* An apply step that also clears the unsynced marker of every row that was
\* pushed.
SyncResolveMarkingPushed(c, records, updatedSyncCursor) ==
    /\ cycles[c].pc = "sync"
    /\ store' = put([i \in DOMAIN store |->
                        IF i \in {r.id : r \in cycles[c].unsynced} \ cycles[c].written
                        THEN [store[i] EXCEPT !.unsynced = FALSE]
                        ELSE store[i]],
                    {ToIdbRecord(r) : r \in {e \in records : e.state = "updated"}})
    /\ cycles' = [cycles EXCEPT ![c] =
                    [@ EXCEPT !.pc = "purge",
                              !.unsynced = {},
                              !.syncCursor = undefinedCursor,
                              !.records = records,
                              !.updatedSyncCursor = updatedSyncCursor]]
    /\ lastFailed' = NoFailure
    /\ UNCHANGED <<recordTypes, localStorage, syncing, timers, mounted, settled, lastCursor, periodic, hooks, idbVars, hostVars, periodicSync, restVars, syncSettled, unsent>>

\* The exchange call resolves and the put of the "updated" entries takes
\* effect.
SyncResolve(c, records, updatedSyncCursor) ==
    /\ cycles[c].pc = "sync"
    /\ store' = put(store, {ToIdbRecord(r) : r \in {e \in records : e.state = "updated"}})
    /\ cycles' = [cycles EXCEPT ![c] =
                    [@ EXCEPT !.pc = "purge",
                              !.unsynced = {},
                              !.syncCursor = undefinedCursor,
                              !.records = records,
                              !.updatedSyncCursor = updatedSyncCursor]]
    /\ lastFailed' = NoFailure
    /\ UNCHANGED <<recordTypes, localStorage, syncing, timers, mounted, settled, lastCursor, periodic, hooks, idbVars, hostVars, periodicSync, restVars, syncSettled, unsent>>

\* An end of cycle that calls notifyUnsyncedChanges, as set and delete do.
PurgeResolveNotifying(c) ==
    /\ cycles[c].pc = "purge"
    /\ timers < MaxPending
    /\ timers' = timers + 1
    /\ store' = purge(store, {e.id : e \in {r \in cycles[c].records : r.state = "deleted"}})
    /\ localStorage' =
          IF cycles[c].updatedSyncCursor # undefinedCursor /\ cycles[c].updatedSyncCursor # null
          THEN cycles[c].updatedSyncCursor
          ELSE null
    /\ lastCursor' =
          IF cycles[c].updatedSyncCursor = null THEN undefinedCursor
          ELSE cycles[c].updatedSyncCursor
    /\ syncing' = FALSE
    /\ cycles' = [cycles EXCEPT ![c] = IdleCycle]
    /\ syncSettled' = "resolved"
    /\ UNCHANGED <<recordTypes, mounted, settled, lastFailed, periodic, hooks, idbVars, hostVars, periodicSync, restVars, unsent>>

\* put has resolved: the purge of the "deleted" ids takes effect, the cursor
\* is stored or removed, and the finally block releases the flag.
PurgeResolve(c) ==
    /\ cycles[c].pc = "purge"
    /\ store' = purge(store, {e.id : e \in {r \in cycles[c].records : r.state = "deleted"}})
    /\ localStorage' =
          IF cycles[c].updatedSyncCursor # undefinedCursor /\ cycles[c].updatedSyncCursor # null
          THEN cycles[c].updatedSyncCursor
          ELSE null
    /\ lastCursor' =
          IF cycles[c].updatedSyncCursor = null THEN undefinedCursor
          ELSE cycles[c].updatedSyncCursor
    /\ syncing' = FALSE
    /\ cycles' = [cycles EXCEPT ![c] = IdleCycle]
    /\ syncSettled' = "resolved"
    /\ UNCHANGED <<recordTypes, timers, mounted, settled, lastFailed, periodic, hooks, idbVars, hostVars, periodicSync, restVars, unsent>>

\* ------------------------------------------------------------- public API

\* A set that stores the JSON text instead of the parsed value.
setWithoutParse(type, id, data) ==
    /\ mounted
    /\ timers < MaxPending
    /\ store' = put(store, {IdbRecord(id, type, FALSE, TRUE, JSONstringify(data))})
    /\ timers' = timers + 1
    /\ cycles' = NoteWritten({id})
    /\ unsent' = unsent \cup {id}
    /\ settled' = "resolved"
    /\ UNCHANGED <<recordTypes, localStorage, syncing, mounted, lastFailed, lastCursor, periodic, hooks, idbVars, hostVars, periodicSync, restVars, syncSettled>>

\* set(id, data) of a type's API.  JSON.parse throws for a payload that
\* JSON.stringify turns into undefined, and the call rejects before any write.
set(type, id, data) ==
    LET parsed == JSONparse(JSONstringify(data)) IN
    IF parsed = SyntaxError
    THEN /\ mounted
         /\ settled' = "rejected"
         /\ UNCHANGED <<recordTypes, store, localStorage, syncing, cycles, timers, mounted, lastFailed, lastCursor,
                        periodic, hooks, idbVars, hostVars, periodicSync, restVars, syncSettled, unsent>>
    ELSE /\ mounted
         /\ timers < MaxPending
         /\ store' = put(store, {IdbRecord(id, type, FALSE, TRUE, parsed)})
         /\ timers' = timers + 1
         /\ cycles' = NoteWritten({id})
         /\ unsent' = unsent \cup {id}
         /\ settled' = "resolved"
         /\ UNCHANGED <<recordTypes, localStorage, syncing, mounted, lastFailed, lastCursor, periodic, hooks, idbVars, hostVars, periodicSync, restVars, syncSettled>>

\* A delete that writes tombstones only over existing rows.
softDeleteExisting(type, ids) ==
    /\ mounted
    /\ timers < MaxPending
    /\ store' = put(store, {IdbRecord(id, type, TRUE, TRUE, EmptyObject) :
                               id \in ids \cap DOMAIN store})
    /\ timers' = timers + 1
    /\ cycles' = NoteWritten(ids)
    /\ unsent' = unsent \cup ids
    /\ settled' = "resolved"
    /\ UNCHANGED <<recordTypes, localStorage, syncing, mounted, lastFailed, lastCursor, periodic, hooks, idbVars, hostVars, periodicSync, restVars, syncSettled>>

\* A delete that removes the rows.
softDeleteRemoving(type, ids) ==
    /\ mounted
    /\ timers < MaxPending
    /\ store' = purge(store, ids)
    /\ timers' = timers + 1
    /\ cycles' = NoteWritten(ids)
    /\ unsent' = unsent \cup ids
    /\ settled' = "resolved"
    /\ UNCHANGED <<recordTypes, localStorage, syncing, mounted, lastFailed, lastCursor, periodic, hooks, idbVars, hostVars, periodicSync, restVars, syncSettled>>

\* delete(...ids) of a type's API: a tombstone per id; no id, no effect.
softDelete(type, ids) ==
    IF ids = {}
    THEN /\ mounted
         /\ settled' = "resolved"
         /\ UNCHANGED <<recordTypes, store, localStorage, syncing, cycles, timers, mounted, lastFailed, lastCursor,
                        periodic, hooks, idbVars, hostVars, periodicSync, restVars, syncSettled, unsent>>
    ELSE /\ mounted
         /\ timers < MaxPending
         /\ store' = put(store, {IdbRecord(id, type, TRUE, TRUE, EmptyObject) : id \in ids})
         /\ timers' = timers + 1
         /\ cycles' = NoteWritten(ids)
         /\ unsent' = unsent \cup ids
         /\ settled' = "resolved"
         /\ UNCHANGED <<recordTypes, localStorage, syncing, mounted, lastFailed, lastCursor, periodic, hooks, idbVars, hostVars, periodicSync, restVars, syncSettled>>

\* ---------------------------------------------------------- specification

Next ==
    \/ Mount
    \/ NotifierFire
    \/ PeriodicTick
    \/ ManualSync
    \/ \E c \in Slots : GetUnsyncedResolve(c)
    \/ \E c \in Slots : SyncReject(c)
    \/ \E c \in Slots, records \in Responses, cursor \in ResponseCursors :
          SyncResolve(c, records, cursor)
    \/ \E c \in Slots : PurgeResolve(c)
    \/ \E type \in recordTypes, id \in Ids, data \in DataInputs : set(type, id, data)
    \/ \E type \in recordTypes, ids \in SUBSET Ids : softDelete(type, ids)

Spec == Init /\ [][Next]_vars

\* ------------------------------------------- the engine left to its triggers

\* createWireStore's Provider, with or without periodic.
EngineInit ==
    /\ Constructed
    /\ periodic \in BOOLEAN
    /\ periodicSync = startPeriodicSync(IF periodic THEN True ELSE undefined)
    /\ hooks = FALSE

\* The application writes and never calls sync(): cycles start from onMount,
\* the notifier and the interval alone.
EngineNext ==
    \/ Mount
    \/ NotifierFire
    \/ PeriodicTick
    \/ \E c \in Slots : GetUnsyncedResolve(c)
    \/ \E c \in Slots : SyncReject(c)
    \/ \E c \in Slots, records \in Responses, cursor \in ResponseCursors :
          SyncResolve(c, records, cursor)
    \/ \E c \in Slots : PurgeResolve(c)
    \/ \E type \in recordTypes, id \in Ids, data \in DataInputs : set(type, id, data)
    \/ \E type \in recordTypes, ids \in SUBSET Ids : softDelete(type, ids)

\* A storage request completes, an exchange call returns or throws, a timeout
\* and an interval run once due, onMount runs.  The application owes nothing.
EngineFairness ==
    /\ WF_vars(Mount)
    /\ WF_vars(NotifierFire)
    /\ WF_vars(PeriodicTick)
    /\ \A c \in Slots :
          /\ WF_vars(GetUnsyncedResolve(c))
          /\ WF_vars(SyncReject(c) \/ \E records \in Responses, cursor \in ResponseCursors :
                                          SyncResolve(c, records, cursor))
          /\ WF_vars(PurgeResolve(c))

EngineSpec == EngineInit /\ [][EngineNext]_vars /\ EngineFairness

\* ------------------------------------------------ hooks and storage errors

\* callHooks(stage, record) for a record that is there: nothing is called
\* without hooks or for a tombstone; otherwise the stage's function of every
\* hook is called with the record's type and data, and the call settles as
\* they do.  rejects: one of them rejects.
callHooks(record, rejects) ==
    IF ~hooks \/ record.deleted = TRUE THEN "resolved"
    ELSE IF rejects THEN "rejected" ELSE "resolved"

\* The records of a put whose objectStore.put request is made: the executor
\* of a record's promise is an async function that awaits callHooks first,
\* and a rejection there ends it before the request.
putRequested(records, rejecting) ==
    {r \in records : callHooks(r, r.id \in rejecting) = "resolved"}

\* The rows a put writes: the requests that do not fail.
putWritten(records, rejecting, failing) ==
    {r \in putRequested(records, rejecting) : r.id \notin failing}

\* How the promise of put(...records) settles.  A failing request calls
\* reject; a rejection of callHooks is the rejection of the executor's own
\* promise, which nothing observes, so that record's promise is never
\* settled and Promise.all stays pending unless another record rejects it.
putSettles(records, rejecting, failing) ==
    IF records = {} THEN "resolved"
    ELSE IF putRequested(records, rejecting) \cap {r \in records : r.id \in failing} # {}
    THEN "rejected"
    ELSE IF putRequested(records, rejecting) # records THEN "pending"
    ELSE "resolved"

\* The catch-less try/finally of triggerSync after a rejected await.
Finally(c) ==
    /\ syncing' = FALSE
    /\ cycles' = [cycles EXCEPT ![c] = IdleCycle]
    /\ syncSettled' = "rejected"

\* getUnsynced rejects: the open or the index request fails.
GetUnsyncedReject(c) ==
    /\ cycles[c].pc = "getUnsynced"
    /\ Finally(c)
    /\ UNCHANGED <<recordTypes, store, localStorage, timers, mounted, settled, lastFailed, lastCursor,
                   periodic, hooks, idbVars, hostVars, periodicSync, restVars, unsent>>

\* The exchange call resolves and the put of the "updated" entries does not:
\* it rejects, and the finally block runs, or it never settles, and the cycle
\* waits at `await idb.put(...updated)` for good.
PutFails(c, records, updatedSyncCursor, rejecting, failing) ==
    LET updated == {ToIdbRecord(r) : r \in {e \in records : e.state = "updated"}}
        outcome == putSettles(updated, rejecting, failing)
    IN
    /\ cycles[c].pc = "sync"
    /\ outcome # "resolved"
    /\ store' = put(store, putWritten(updated, rejecting, failing))
    /\ lastFailed' = NoFailure
    /\ IF outcome = "rejected"
       THEN Finally(c)
       ELSE /\ cycles' = [cycles EXCEPT ![c] =
                            [@ EXCEPT !.pc = "put",
                                      !.unsynced = {},
                                      !.syncCursor = undefinedCursor,
                                      !.records = records,
                                      !.updatedSyncCursor = updatedSyncCursor]]
            /\ UNCHANGED <<syncing, syncSettled>>
    /\ UNCHANGED <<recordTypes, localStorage, timers, mounted, settled, lastCursor,
                   periodic, hooks, idbVars, hostVars, periodicSync, restVars, unsent>>

\* purge rejects: a delete request fails.  The other rows are removed, the
\* cursor item is not touched.
PurgeReject(c, failing) ==
    LET deleted == {e.id : e \in {r \in cycles[c].records : r.state = "deleted"}} IN
    /\ cycles[c].pc = "purge"
    /\ failing # {}
    /\ failing \subseteq deleted
    /\ store' = purge(store, deleted \ failing)
    /\ Finally(c)
    /\ UNCHANGED <<recordTypes, localStorage, timers, mounted, settled, lastFailed, lastCursor,
                   periodic, hooks, idbVars, hostVars, periodicSync, restVars, unsent>>

\* set(id, data) whose put does not resolve: nothing is written and
\* notifyUnsyncedChanges is not reached.
setFails(type, id, data, rejects, fails) ==
    LET parsed == JSONparse(JSONstringify(data))
        record == IdbRecord(id, type, FALSE, TRUE, parsed)
        outcome == putSettles({record}, IF rejects THEN {id} ELSE {}, IF fails THEN {id} ELSE {})
    IN
    /\ mounted
    /\ parsed # SyntaxError
    /\ outcome # "resolved"
    /\ settled' = outcome
    /\ UNCHANGED <<recordTypes, store, localStorage, syncing, cycles, timers, mounted, lastFailed, lastCursor,
                   periodic, hooks, idbVars, hostVars, periodicSync, restVars, syncSettled, unsent>>

\* get(id): the row is requested, callHooks is awaited in the async onsuccess
\* handler when there is a row, then the promise is resolved; a failing
\* request calls reject.
getSettles(st, id, rejects, fails) ==
    IF fails THEN "rejected"
    ELSE IF id \in DOMAIN st /\ callHooks(st[id], rejects) = "rejected" THEN "pending"
    ELSE "resolved"

\* all(): the same, with callHooks for every row that is not soft-deleted.
allSettles(st, type, rejecting, fails) ==
    IF fails THEN "rejected"
    ELSE IF \E i \in DOMAIN st :
               /\ st[i].type = type
               /\ st[i].deleted # TRUE
               /\ callHooks(st[i], i \in rejecting) = "rejected"
    THEN "pending"
    ELSE "resolved"

GetCall(type, id, rejects, fails) ==
    /\ mounted
    /\ settled' = getSettles(store, id, rejects, fails)
    /\ UNCHANGED <<recordTypes, store, localStorage, syncing, cycles, timers, mounted, lastFailed, lastCursor,
                   periodic, hooks, idbVars, hostVars, periodicSync, restVars, syncSettled, unsent>>

AllCall(type, rejecting, fails) ==
    /\ mounted
    /\ settled' = allSettles(store, type, rejecting, fails)
    /\ UNCHANGED <<recordTypes, store, localStorage, syncing, cycles, timers, mounted, lastFailed, lastCursor,
                   periodic, hooks, idbVars, hostVars, periodicSync, restVars, syncSettled, unsent>>

\* A WireStoreService that is given hooks, over a store whose requests can
\* fail.
FaultInit ==
    /\ Constructed
    /\ periodic = TRUE
    /\ periodicSync = startPeriodicSync(IF periodic THEN True ELSE undefined)
    /\ hooks = TRUE

\* The inputs of the runs with failures: what a failure does depends neither
\* on the string of the cursor nor on the payload.
FaultCursors == {Str("c1")}

FaultData == {TitleA}

FaultNext ==
    \/ Mount
    \/ NotifierFire
    \/ PeriodicTick
    \/ \E c \in Slots : GetUnsyncedResolve(c)
    \/ \E c \in Slots : GetUnsyncedReject(c)
    \/ \E c \in Slots : SyncReject(c)
    \/ \E c \in Slots, records \in Responses, cursor \in FaultCursors :
          SyncResolve(c, records, cursor)
    \/ \E c \in Slots, records \in Responses, cursor \in FaultCursors,
          rejecting \in SUBSET Ids, failing \in SUBSET Ids :
          PutFails(c, records, cursor, rejecting, failing)
    \/ \E c \in Slots : PurgeResolve(c)
    \/ \E c \in Slots, failing \in SUBSET Ids : PurgeReject(c, failing)
    \/ \E type \in recordTypes, id \in Ids, data \in FaultData : set(type, id, data)
    \/ \E type \in recordTypes, id \in Ids, data \in FaultData, rejects \in BOOLEAN, fails \in BOOLEAN :
          setFails(type, id, data, rejects, fails)
    \/ \E type \in recordTypes, ids \in SUBSET Ids : softDelete(type, ids)
    \/ \E type \in recordTypes, id \in Ids, rejects \in BOOLEAN, fails \in BOOLEAN :
          GetCall(type, id, rejects, fails)
    \/ \E type \in recordTypes, rejecting \in SUBSET Ids, fails \in BOOLEAN :
          AllCall(type, rejecting, fails)

\* Every await of a cycle whose promise settles is resumed.
FaultFairness ==
    \A c \in Slots :
        /\ WF_vars(GetUnsyncedResolve(c) \/ GetUnsyncedReject(c))
        /\ WF_vars(\/ SyncReject(c)
                   \/ \E records \in Responses, cursor \in FaultCursors :
                         \/ SyncResolve(c, records, cursor)
                         \/ \E rejecting \in SUBSET Ids, failing \in SUBSET Ids :
                               PutFails(c, records, cursor, rejecting, failing))
        /\ WF_vars(PurgeResolve(c) \/ \E failing \in SUBSET Ids : PurgeReject(c, failing))

FaultSpec == FaultInit /\ [][FaultNext]_vars /\ FaultFairness

\* delete(...ids) one of whose puts rejects: every id has a put call of its
\* own, a tombstone is not given to the hooks, so the puts whose request
\* succeeds store their tombstone; Promise.all rejects, and
\* notifyUnsyncedChanges is not reached.
softDeleteFails(type, ids, failing) ==
    LET record(id) == IdbRecord(id, type, TRUE, TRUE, EmptyObject)
        stored == {id \in ids : putSettles({record(id)}, {}, failing) = "resolved"}
    IN
    /\ mounted
    /\ failing # {}
    /\ failing \subseteq ids
    /\ store' = put(store, {record(id) : id \in stored})
    /\ cycles' = NoteWritten(stored)
    /\ unsent' = unsent \cup stored
    /\ settled' = "rejected"
    /\ UNCHANGED <<recordTypes, localStorage, syncing, timers, mounted, lastFailed, lastCursor,
                   periodic, hooks, idbVars, hostVars, periodicSync, restVars, syncSettled>>

\* The record API with failing requests, and the cycles its notifications
\* start.
DeleteFaultNext ==
    \/ Mount
    \/ NotifierFire
    \/ \E c \in Slots : GetUnsyncedResolve(c)
    \/ \E c \in Slots, records \in Responses, cursor \in FaultCursors : SyncResolve(c, records, cursor)
    \/ \E c \in Slots : PurgeResolve(c)
    \/ \E type \in recordTypes, id \in Ids, data \in FaultData : set(type, id, data)
    \/ \E type \in recordTypes, id \in Ids, data \in FaultData, rejects \in BOOLEAN, fails \in BOOLEAN :
          setFails(type, id, data, rejects, fails)
    \/ \E type \in recordTypes, ids \in SUBSET Ids : softDelete(type, ids)
    \/ \E type \in recordTypes, ids \in SUBSET Ids, failing \in SUBSET Ids : softDeleteFails(type, ids, failing)

DeleteFaultSpec == FaultInit /\ [][DeleteFaultNext]_vars

\* ------------------------------------------------------- two record types

\* A store whose definition has two record types, under createWireStore's
\* Provider.
TypesInit ==
    /\ recordTypes = {"todo", "note"}
    /\ tracker = [t \in {"todo", "note"} |-> 0]
    /\ store = [i \in {} |-> {}]
    /\ localStorage = null
    /\ syncing = FALSE
    /\ cycles = [c \in Slots |-> IdleCycle]
    /\ timers = 0
    /\ mounted = FALSE
    /\ settled = "none"
    /\ lastFailed = NoFailure
    /\ lastCursor = undefinedCursor
    /\ syncSettled = "none"
    /\ unsent = {}
    /\ periodic = FALSE
    /\ periodicSync = startPeriodicSync(IF periodic THEN True ELSE undefined)
    /\ hooks = FALSE
    /\ IdbConstructed
    /\ RestConstructed
    /\ OneInstance

TypesNext ==
    \/ Mount
    \/ NotifierFire
    \/ \E c \in Slots : GetUnsyncedResolve(c)
    \/ \E c \in Slots, records \in Responses, cursor \in FaultCursors :
          SyncResolve(c, records, cursor)
    \/ \E c \in Slots : PurgeResolve(c)
    \/ \E type \in recordTypes, id \in Ids, data \in FaultData : set(type, id, data)
    \/ \E type \in recordTypes, ids \in SUBSET Ids : softDelete(type, ids)

TypesSpec == TypesInit /\ [][TypesNext]_vars

\* ------------------------------------------------------------ the notifier

\* The variables of the engine and of the record store that a step of the
\* subscriber list or of the handle leaves alone.
serviceVars ==
    <<recordTypes, store, localStorage, syncing, cycles, timers, mounted, settled, lastFailed, lastCursor,
      periodic, hooks, syncSettled, unsent>>

\* The callbacks handed to listenToUnsyncedChanges: one that returns and one
\* that throws.
Callbacks == [throws : BOOLEAN]

\* Object.values(obj) of an object with integer keys: the values in ascending
\* order of the keys.
RECURSIVE ObjectValues(_)
ObjectValues(obj) ==
    IF DOMAIN obj = {} THEN <<>>
    ELSE LET k == CHOOSE i \in DOMAIN obj : \A j \in DOMAIN obj : i <= j
         IN <<obj[k]>> \o ObjectValues([i \in DOMAIN obj \ {k} |-> obj[i]])

\* The loop without its try/catch: the first exception ends it.
RECURSIVE RunSubscribersUncaught(_)
RunSubscribersUncaught(subs) ==
    IF subs = <<>> THEN [called |-> <<>>, logged |-> <<>>]
    ELSE IF Head(subs).throws THEN [called |-> <<Head(subs)>>, logged |-> <<>>]
    ELSE LET rest == RunSubscribersUncaught(Tail(subs))
         IN [called |-> <<Head(subs)>> \o rest.called, logged |-> rest.logged]

\* The loop of the timeout callback: each subscriber is called inside a
\* try/catch that logs; what it returns is the callbacks called and the
\* callbacks whose exception was logged.
RECURSIVE RunSubscribers(_)
RunSubscribers(subs) ==
    IF subs = <<>> THEN [called |-> <<>>, logged |-> <<>>]
    ELSE LET rest == RunSubscribers(Tail(subs))
         IN [called |-> <<Head(subs)>> \o rest.called,
             logged |-> IF Head(subs).throws THEN <<Head(subs)>> \o rest.logged
                        ELSE rest.logged]

\* A millisecond passes.
Tick ==
    /\ now < MaxNow
    /\ now' = now + 1
    /\ UNCHANGED <<serviceVars, hostVars, periodicSync, restVars, tracker, lastOp, subscribers, called, logged, closed, db, opening, issued, ops>>

\* listenToUnsyncedChanges(callback): the callback is stored under the time.
listenToUnsyncedChanges(callback) ==
    /\ subscribers' = [i \in DOMAIN subscribers \cup {now} |->
                          IF i = now THEN callback ELSE subscribers[i]]
    /\ UNCHANGED <<serviceVars, hostVars, periodicSync, restVars, tracker, lastOp, now, called, logged, closed, db, opening, issued, ops>>

\* The function listenToUnsyncedChanges returned, for a subscriber that is
\* there: delete subscribers[id].
Unsubscribe(id) ==
    /\ id \in DOMAIN subscribers
    /\ subscribers' = [i \in DOMAIN subscribers \ {id} |-> subscribers[i]]
    /\ UNCHANGED <<serviceVars, hostVars, periodicSync, restVars, tracker, lastOp, now, called, logged, closed, db, opening, issued, ops>>

\* A timeout of notifyUnsyncedChanges runs.
TimeoutRun ==
    LET run == RunSubscribers(ObjectValues(subscribers)) IN
    /\ timers > 0
    /\ timers' = timers - 1
    /\ called' = run.called
    /\ logged' = run.logged
    /\ UNCHANGED <<recordTypes, store, localStorage, syncing, cycles, mounted, settled, lastFailed, lastCursor,
                   periodic, hooks, syncSettled, unsent, subscribers, now, db, closed, opening, issued, ops,
                   tracker, lastOp, hostVars, periodicSync, restVars>>

\* The record API in use, the engine idle, no subscriber yet.
IdbInit ==
    /\ recordTypes = {"todo"}
    /\ tracker = [t \in {"todo"} |-> 0]
    /\ store = [i \in {} |-> {}]
    /\ localStorage = null
    /\ syncing = FALSE
    /\ cycles = [c \in Slots |-> IdleCycle]
    /\ timers = 0
    /\ mounted = TRUE
    /\ settled = "none"
    /\ lastFailed = NoFailure
    /\ lastCursor = undefinedCursor
    /\ syncSettled = "resolved"
    /\ unsent = {}
    /\ periodic = FALSE
    /\ periodicSync = startPeriodicSync(IF periodic THEN True ELSE undefined)
    /\ hooks = FALSE
    /\ IdbConstructed
    /\ RestConstructed
    /\ OneInstance

NotifierNext ==
    \/ Tick
    \/ \E callback \in Callbacks : listenToUnsyncedChanges(callback)
    \/ \E id \in 0..MaxNow : Unsubscribe(id)
    \/ TimeoutRun
    \/ \E type \in recordTypes, id \in Ids, data \in FaultData : set(type, id, data)
    \/ \E type \in recordTypes, ids \in SUBSET Ids : softDelete(type, ids)

NotifierSpec == IdbInit /\ [][NotifierNext]_vars

\* listenToUnsyncedChanges(callback) with the function it returns: the
\* closure keeps the id, which is the time of the call in milliseconds.  The
\* callers register functions that differ from those still registered.
Subscribe(callback) ==
    /\ \A h \in handles : h.callback # callback
    /\ subscribers' = [i \in DOMAIN subscribers \cup {now} |->
                          IF i = now THEN callback ELSE subscribers[i]]
    /\ handles' = handles \cup {[id |-> now, callback |-> callback]}
    /\ UNCHANGED <<serviceVars, hostVars, periodicSync, validated, hookCalls, applying, tracker, lastOp, now,
                   called, logged, closed, db, opening, issued, ops, bound, cache, engine>>

\* A function returned by listenToUnsyncedChanges is called:
\* delete subscribers[id], whatever is stored under the id by now.
CallUnsubscribe(h) ==
    /\ h \in handles
    /\ subscribers' = [i \in DOMAIN subscribers \ {h.id} |-> subscribers[i]]
    /\ handles' = handles \ {h}
    /\ UNCHANGED <<serviceVars, hostVars, periodicSync, validated, hookCalls, applying, tracker, lastOp, now,
                   called, logged, closed, db, opening, issued, ops, bound, cache, engine>>

RegistrationNext ==
    \/ Tick
    \/ \E callback \in Callbacks : Subscribe(callback)
    \/ \E h \in handles : CallUnsubscribe(h)
    \/ TimeoutRun
    \/ \E type \in recordTypes, id \in Ids, data \in FaultData : set(type, id, data)

RegistrationSpec == IdbInit /\ [][RegistrationNext]_vars

\* -------------------------------------------------------------- the handle

\* The operations of useIdb that call open().
OpKinds == {"get", "all", "put", "purge", "getUnsynced"}

\* get and all await open() inside the async executor of the promise they
\* return; put, purge and getUnsynced await it in the body of the async
\* function, before any promise is built.
OpensInExecutor(kind) == kind \in {"get", "all"}

\* The operation of slot o has settled.
Settle(o, how) == [ops EXCEPT ![o] = [IdleOp EXCEPT !.settled = how]]

\* open() has rejected for the operations that wait on request r: an async
\* function rejects with it; the rejection inside an async executor is that
\* of the executor's own promise, and the promise of the operation is left
\* with nothing that settles it.
RejectWaiters(r) ==
    [o \in OpSlots |->
        IF ops[o].pc = "open" /\ ops[o].req = r
        THEN IF OpensInExecutor(ops[o].kind)
             THEN [ops[o] EXCEPT !.pc = "stuck"]
             ELSE [IdleOp EXCEPT !.settled = "rejected"]
        ELSE ops[o]]

\* db.transaction(...) on a handle: it throws InvalidStateError on a closed
\* one.  Every operation makes the call inside an async executor (purge in
\* that of getRawUnhookedRecord), where the exception rejects the executor's
\* own promise and leaves the operation's promise with nothing to settle it.
Transaction(handle) == IF handle \in closed THEN "threw" ELSE "request"

\* close(): db?.close().  db keeps the handle.
close ==
    /\ db # NoHandle
    /\ closed' = closed \cup {db}
    /\ UNCHANGED <<serviceVars, hostVars, periodicSync, restVars, tracker, lastOp, subscribers, now, called, logged, db, opening, issued, ops>>

\* An operation is called and calls open(): with a handle in db it goes on
\* to its request; without one it makes an indexedDB.open request of its own.
Call(o, kind) ==
    /\ ops[o].pc = "idle"
    /\ IF db # NoHandle
       THEN /\ ops' = [ops EXCEPT ![o] = [kind |-> kind, pc |-> Transaction(db), req |-> NoHandle,
                                          handle |-> db, settled |-> "none"]]
            /\ UNCHANGED <<opening, issued>>
       ELSE /\ issued < MaxOpens
            /\ issued' = issued + 1
            /\ opening' = opening \cup {issued + 1}
            /\ ops' = [ops EXCEPT ![o] = [kind |-> kind, pc |-> "open", req |-> issued + 1,
                                          handle |-> NoHandle, settled |-> "none"]]
    /\ UNCHANGED <<serviceVars, hostVars, periodicSync, restVars, tracker, lastOp, subscribers, now, called, logged, closed, db>>

\* open.onsuccess
OpenSuccess(r) ==
    /\ r \in opening
    /\ opening' = opening \ {r}
    /\ db' = r
    /\ ops' = [o \in OpSlots |->
                  IF ops[o].pc = "open" /\ ops[o].req = r
                  THEN [ops[o] EXCEPT !.pc = Transaction(r), !.handle = r]
                  ELSE ops[o]]
    /\ UNCHANGED <<serviceVars, hostVars, periodicSync, restVars, tracker, lastOp, subscribers, now, called, logged, closed, issued>>

\* open.onerror
OpenError(r) ==
    /\ r \in opening
    /\ opening' = opening \ {r}
    /\ db' = NoHandle
    /\ ops' = RejectWaiters(r)
    /\ UNCHANGED <<serviceVars, hostVars, periodicSync, restVars, tracker, lastOp, subscribers, now, called, logged, closed, issued>>

\* open.onblocked: the request stays pending.
OpenBlocked(r) ==
    /\ r \in opening
    /\ \E o \in OpSlots : ops[o].pc = "open" /\ ops[o].req = r
    /\ db' = NoHandle
    /\ ops' = RejectWaiters(r)
    /\ UNCHANGED <<serviceVars, hostVars, periodicSync, restVars, tracker, lastOp, subscribers, now, called, logged, closed, opening, issued>>

\* request.onsuccess of the operation's read or write.
RequestSuccess(o) ==
    /\ ops[o].pc = "request"
    /\ ops' = Settle(o, "resolved")
    /\ UNCHANGED <<serviceVars, hostVars, periodicSync, restVars, tracker, lastOp, subscribers, now, called, logged, closed, db, opening, issued>>

\* request.onerror of the operation's read or write.
RequestError(o) ==
    /\ ops[o].pc = "request"
    /\ ops' = Settle(o, "rejected")
    /\ UNCHANGED <<serviceVars, hostVars, periodicSync, restVars, tracker, lastOp, subscribers, now, called, logged, closed, db, opening, issued>>

OpenNext ==
    \/ \E o \in OpSlots, kind \in OpKinds : Call(o, kind)
    \/ \E r \in 1..MaxOpens : OpenSuccess(r)
    \/ \E r \in 1..MaxOpens : OpenError(r)
    \/ \E r \in 1..MaxOpens : OpenBlocked(r)
    \/ \E o \in OpSlots : RequestSuccess(o)
    \/ \E o \in OpSlots : RequestError(o)
    \/ close

OpenSpec == IdbInit /\ [][OpenNext]_vars

\* ----------------------------------------------------------- change tokens

\* How often a token is regenerated in a checked run.
MaxToken == 2

\* The record types of the rows written and read: "ghost" is in no store
\* definition of the model.
Types == {"todo", "note", "ghost"}

\* The rows put is called with: by a sync cycle (ToIdbRecord) and by
\* softDelete.
PutRecords ==
    {IdbRecord(i, t, FALSE, FALSE, TitleA) : i \in Ids, t \in Types}
        \cup {IdbRecord(i, t, TRUE, TRUE, EmptyObject) : i \in Ids, t \in Types}

\* The arguments of one put call: at most one record per id.
PutBatches ==
    {b \in SUBSET PutRecords :
        /\ Cardinality(b) <= 2
        /\ \A r1 \in b, r2 \in b : r1.id = r2.id => r1 = r2}

\* batch(() => recordTypes.forEach(type => notify(type))): the token of
\* every type of the set that has one is regenerated once; for a type
\* without a token notify logs a warning and returns.
notify(tr, types) ==
    [t \in DOMAIN tr |-> IF t \in types THEN tr[t] + 1 ELSE tr[t]]

\* put(...records), from the call to the settling of its promise.  The
\* batch of notify calls follows the await of Promise.all, so it runs only
\* when every hook and every request of the call succeeded.
idbPut(records, rejecting, failing) ==
    /\ \A t \in DOMAIN tracker : tracker[t] < MaxToken
    /\ store' = put(store, putWritten(records, rejecting, failing))
    /\ tracker' = IF records # {} /\ putSettles(records, rejecting, failing) = "resolved"
                  THEN notify(tracker, {r.type : r \in records})
                  ELSE tracker
    /\ lastOp' = [kind |-> "put", outcome |-> putSettles(records, rejecting, failing),
                  ids |-> {r.id : r \in records},
                  failed |-> {r.id : r \in records} \ {r.id : r \in putWritten(records, rejecting, failing)},
                  types |-> {r.type : r \in putWritten(records, rejecting, failing)}]
    /\ UNCHANGED <<recordTypes, localStorage, syncing, cycles, timers, mounted, settled, lastFailed, lastCursor,
                   periodic, hooks, syncSettled, unsent, subscribers, now, called, logged, db, closed, opening,
                   issued, ops, hostVars, periodicSync, restVars>>

\* A purge that notifies every record type of the store.
idbPurgeNotifyingAll(ids, failing) ==
    /\ \A t \in DOMAIN tracker : tracker[t] < MaxToken
    /\ store' = purge(store, ids \ failing)
    /\ tracker' = IF failing = {} /\ ids # {} THEN notify(tracker, recordTypes) ELSE tracker
    /\ lastOp' = [kind |-> "purge", outcome |-> IF failing = {} THEN "resolved" ELSE "rejected",
                  ids |-> ids, failed |-> failing,
                  types |-> {store[i].type : i \in (ids \ failing) \cap DOMAIN store}]
    /\ UNCHANGED <<recordTypes, localStorage, syncing, cycles, timers, mounted, settled, lastFailed, lastCursor,
                   periodic, hooks, syncSettled, unsent, subscribers, now, called, logged, db, closed, opening,
                   issued, ops, hostVars, periodicSync, restVars>>

\* purge(ids), from the call to the settling of its promise: the rows are
\* read first for their types, then every id is deleted; request.onerror of
\* a delete rejects the call, and the batch of notify calls is after the
\* await.
idbPurge(ids, failing) ==
    /\ \A t \in DOMAIN tracker : tracker[t] < MaxToken
    /\ store' = purge(store, ids \ failing)
    /\ tracker' = IF failing = {}
                  THEN notify(tracker, {store[i].type : i \in ids \cap DOMAIN store})
                  ELSE tracker
    /\ lastOp' = [kind |-> "purge", outcome |-> IF failing = {} THEN "resolved" ELSE "rejected",
                  ids |-> ids, failed |-> failing,
                  types |-> {store[i].type : i \in (ids \ failing) \cap DOMAIN store}]
    /\ UNCHANGED <<recordTypes, localStorage, syncing, cycles, timers, mounted, settled, lastFailed, lastCursor,
                   periodic, hooks, syncSettled, unsent, subscribers, now, called, logged, db, closed, opening,
                   issued, ops, hostVars, periodicSync, restVars>>

\* A call of get or all of publicApi(type): the proxy's apply reads
\* tracker[type][0] before the function runs, and tracker[type] is
\* undefined for a type that has no token.
reactiveRead(type) ==
    /\ lastOp' = [kind |-> "read", outcome |-> IF type \in DOMAIN tracker THEN "resolved" ELSE "threw",
                  ids |-> {}, failed |-> {}, types |-> {type}]
    /\ UNCHANGED <<serviceVars, hostVars, periodicSync, restVars, tracker, subscribers, now, called, logged, db, closed, opening, issued, ops>>

\* The record API of a store with two record types, hooks given or not.
TrackerInit ==
    /\ recordTypes = {"todo", "note"}
    /\ tracker = [t \in {"todo", "note"} |-> 0]
    /\ store = [i \in {} |-> {}]
    /\ localStorage = null
    /\ syncing = FALSE
    /\ cycles = [c \in Slots |-> IdleCycle]
    /\ timers = 0
    /\ mounted = TRUE
    /\ settled = "none"
    /\ lastFailed = NoFailure
    /\ lastCursor = undefinedCursor
    /\ syncSettled = "resolved"
    /\ unsent = {}
    /\ periodic = FALSE
    /\ periodicSync = startPeriodicSync(IF periodic THEN True ELSE undefined)
    /\ hooks \in BOOLEAN
    /\ IdbConstructed
    /\ RestConstructed
    /\ OneInstance

TrackerNext ==
    \/ \E records \in PutBatches :
          \E rejecting \in SUBSET {r.id : r \in records} :
              \E failing \in SUBSET ({r.id : r \in records} \ rejecting) :
                  idbPut(records, rejecting, failing)
    \/ \E ids \in SUBSET Ids : \E failing \in SUBSET ids : idbPurge(ids, failing)
    \/ \E type \in Types : reactiveRead(type)

TrackerSpec == TrackerInit /\ [][TrackerNext]_vars

\* ------------------------------------------------------------ periodic sync

\* What a Provider is given as periodic: nothing, what the type allows (true,
\* a number of milliseconds) and what it does not.
PeriodicSettings ==
    {undefined, null, True, False, Num(0), Num(-1), NaN, Num(30000), Str("30000")}

\* The effect of WireStoreService runs: it ends with startPeriodicSync().
Effect ==
    /\ ~periodicSync.started
    /\ periodicSync' = startPeriodicSync(periodicSync.setting)
    /\ periodic' = (startPeriodicSync(periodicSync.setting).interval # NoInterval)
    /\ UNCHANGED <<recordTypes, store, localStorage, syncing, cycles, timers, mounted, settled, lastFailed,
                   lastCursor, hooks, syncSettled, unsent, idbVars, hostVars, restVars>>

\* props.periodic changes: the effect, which read it, runs again.
SetPeriodic(setting) ==
    /\ periodicSync.started
    /\ setting # periodicSync.setting
    /\ periodicSync' = startPeriodicSync(setting)
    /\ periodic' = (startPeriodicSync(setting).interval # NoInterval)
    /\ UNCHANGED <<recordTypes, store, localStorage, syncing, cycles, timers, mounted, settled, lastFailed,
                   lastCursor, hooks, syncSettled, unsent, idbVars, hostVars, restVars>>

\* WireStoreService is constructed with some value of periodic; its effect
\* has not run yet.
PeriodicInit ==
    /\ Constructed
    /\ periodic = FALSE
    /\ hooks = FALSE
    /\ periodicSync \in {NotStarted(setting) : setting \in PeriodicSettings}

PeriodicNext ==
    \/ Effect
    \/ \E setting \in PeriodicSettings : SetPeriodic(setting)
    \/ Mount
    \/ PeriodicTick
    \/ \E c \in Slots : GetUnsyncedResolve(c)
    \/ \E c \in Slots : SyncReject(c)
    \/ \E c \in Slots, cursor \in FaultCursors : SyncResolve(c, {}, cursor)
    \/ \E c \in Slots : PurgeResolve(c)

PeriodicSpec == PeriodicInit /\ [][PeriodicNext]_vars

\* -------------------------------------------------------------------- crash

\* The page goes away and is loaded again: what WireStoreService and useIdb
\* keep in memory is as after construction, the records and the cursor item
\* are as they were.
Crash ==
    /\ mounted
    /\ mounted' = FALSE
    /\ syncing' = FALSE
    /\ cycles' = [c \in Slots |-> IdleCycle]
    /\ timers' = 0
    /\ settled' = "none"
    /\ syncSettled' = "none"
    /\ lastFailed' = NoFailure
    /\ lastCursor' = undefinedCursor
    /\ UNCHANGED <<recordTypes, store, localStorage, periodic, hooks, unsent, idbVars, hostVars, periodicSync, restVars>>

CrashInit ==
    /\ Constructed
    /\ periodic = FALSE
    /\ periodicSync = startPeriodicSync(undefined)
    /\ hooks = FALSE

CrashNext ==
    \/ Mount
    \/ NotifierFire
    \/ \E c \in Slots : GetUnsyncedResolve(c)
    \/ \E c \in Slots : SyncReject(c)
    \/ \E c \in Slots, records \in Responses, cursor \in FaultCursors : SyncResolve(c, records, cursor)
    \/ \E c \in Slots : PurgeResolve(c)
    \/ \E type \in recordTypes, id \in Ids, data \in FaultData : set(type, id, data)
    \/ \E type \in recordTypes, id \in Ids : softDelete(type, {id})
    \/ Crash

CrashSpec == CrashInit /\ [][CrashNext]_vars

\* -------------------------------------------------------------- namespaces

\* The Providers mounted in one origin.
Instances == {"first", "second"}

\* config.name of the stores.
Names == {"a", "a:b"}

\* The namespace prop given to a Provider: omitted, or a string.
NamespaceProps == {undefined, Str(""), Str("c"), Str("b:c")}

\* The store name and namespace prop of the two Providers: the first is of
\* store "a", without a namespace or with one that has a colon.
InstanceProps ==
    {f \in [Instances -> [name : Names, namespace : NamespaceProps]] :
        /\ f["first"].name = "a"
        /\ f["first"].namespace \in {undefined, Str("b:c")}
        /\ f["second"].namespace \in {Str(""), Str("c")}}

\* namespace={props.namespace || ""}: what WireStoreService gets.
OrEmpty(v) == IF v = undefined \/ v = Str("") THEN "" ELSE v.s

\* `wire-store:${props.config.name}:${props.namespace}`
dbName(name, namespace) == "wire-store:" \o name \o ":" \o namespace

\* A cursor key without the "wire-store:" prefix.
cursorKeyUnprefixed(name, namespace) == name \o ":" \o namespace \o ":sync-cursor"

\* `wire-store:${props.config.name}:${props.namespace}:sync-cursor`
cursorKey(name, namespace) == "wire-store:" \o name \o ":" \o namespace \o ":sync-cursor"

\* The database and the cursor key of instance p.
DbOf(p) == dbName(instances[p].name, OrEmpty(instances[p].namespace))
KeyOf(p) == cursorKey(instances[p].name, OrEmpty(instances[p].namespace))

\* The one argument of props.config.sync(...).
syncArguments(unsynced, namespace, syncCursor) ==
    [records |-> unsynced, namespace |-> namespace, syncCursor |-> syncCursor]

\* The responses of the exchange to the instances: nothing, or one entry.
InstanceResponses ==
    {{}, {WireRecord("1", "todo", "updated", TitleA)}, {WireRecord("1", "todo", "deleted", EmptyObject)}}

\* set(id, data) of publicApi(type) of instance p.
instanceSet(p, type, id) ==
    /\ indexedDB' = [indexedDB EXCEPT ![DbOf(p)] = put(@, {IdbRecord(id, type, FALSE, TRUE, TitleA)})]
    /\ lastAct' = [kind |-> "set", instance |-> p, args |-> <<>>, key |-> "", result |-> undefinedCursor]
    /\ UNCHANGED <<serviceVars, idbVars, periodicSync, restVars, instances, storage>>

\* delete(id) of publicApi(type) of instance p.
instanceDelete(p, type, id) ==
    /\ indexedDB' = [indexedDB EXCEPT ![DbOf(p)] = put(@, {IdbRecord(id, type, TRUE, TRUE, EmptyObject)})]
    /\ lastAct' = [kind |-> "delete", instance |-> p, args |-> <<>>, key |-> "", result |-> undefinedCursor]
    /\ UNCHANGED <<serviceVars, idbVars, periodicSync, restVars, instances, storage>>

\* A sync cycle of instance p whose exchange call resolves, from the guard
\* to the finally block.
instanceSync(p, records, updatedSyncCursor) ==
    /\ lastAct' = [kind |-> "sync", instance |-> p,
                   args |-> <<syncArguments({ToUnsyncedRecord(r) : r \in getUnsynced(indexedDB[DbOf(p)])},
                                            OrEmpty(instances[p].namespace),
                                            OrUndefined(storage[KeyOf(p)]))>>,
                   key |-> KeyOf(p), result |-> updatedSyncCursor]
    /\ indexedDB' = [indexedDB EXCEPT ![DbOf(p)] =
                        purge(put(@, {ToIdbRecord(r) : r \in {e \in records : e.state = "updated"}}),
                              {e.id : e \in {r \in records : r.state = "deleted"}})]
    /\ storage' = [storage EXCEPT ![KeyOf(p)] =
                      IF updatedSyncCursor # undefinedCursor /\ updatedSyncCursor # null
                      THEN updatedSyncCursor
                      ELSE null]
    /\ UNCHANGED <<serviceVars, idbVars, periodicSync, restVars, instances>>

\* Two Providers are mounted, each with a store name and a namespace prop:
\* every database is empty and no cursor is stored.
NamespaceInit ==
    /\ recordTypes = {"todo", "note"}
    /\ tracker = [t \in {"todo", "note"} |-> 0]
    /\ store = [i \in {} |-> {}]
    /\ localStorage = null
    /\ syncing = FALSE
    /\ cycles = [c \in Slots |-> IdleCycle]
    /\ timers = 0
    /\ mounted = TRUE
    /\ settled = "none"
    /\ lastFailed = NoFailure
    /\ lastCursor = undefinedCursor
    /\ syncSettled = "resolved"
    /\ unsent = {}
    /\ periodic = FALSE
    /\ periodicSync = startPeriodicSync(IF periodic THEN True ELSE undefined)
    /\ hooks = FALSE
    /\ IdbConstructed
    /\ RestConstructed
    /\ instances \in InstanceProps
    /\ indexedDB = [n \in {DbOf(p) : p \in Instances} |-> [i \in {} |-> {}]]
    /\ storage = [k \in {KeyOf(p) : p \in Instances} |-> null]
    /\ lastAct = NoAct

NamespaceNext ==
    \/ \E p \in Instances, type \in recordTypes, id \in Ids : instanceSet(p, type, id)
    \/ \E p \in Instances, id \in Ids : instanceDelete(p, "todo", id)
    \/ \E p \in Instances, records \in InstanceResponses, updatedSyncCursor \in FaultCursors \cup {undefinedCursor} :
          instanceSync(p, records, updatedSyncCursor)

NamespaceSpec == NamespaceInit /\ [][NamespaceNext]_vars

\* ------------------------------------------------- a namespace that changes

\* The values the namespace prop of the first Provider takes.
SwitchNamespaces == {Str("n1"), Str("n2")}

SwitchAct(kind) == [kind |-> kind, instance |-> "first", args |-> <<>>, key |-> "", result |-> undefinedCursor]

\* triggerSync of the first Provider up to its first await: cursorKey, idb
\* and namespace are locals computed from the props and context() of now.
switchTrigger ==
    /\ ~syncing
    /\ bound.pc = "idle"
    /\ syncing' = TRUE
    /\ bound' = [NotBound EXCEPT !.pc = "getUnsynced", !.db = DbOf("first"), !.key = KeyOf("first"),
                                 !.namespace = OrEmpty(instances["first"].namespace)]
    /\ lastAct' = SwitchAct("trigger")
    /\ UNCHANGED <<recordTypes, store, localStorage, cycles, timers, mounted, settled, lastFailed, lastCursor,
                   periodic, hooks, syncSettled, unsent, idbVars, instances, indexedDB, storage, periodicSync,
                   validated, hookCalls, applying, handles, cache, engine>>

\* idb.getUnsynced() resolves, the cursor item is read and the exchange is
\* called.
switchGetUnsynced ==
    /\ bound.pc = "getUnsynced"
    /\ bound' = [bound EXCEPT !.pc = "sync"]
    /\ lastAct' = [kind |-> "sync", instance |-> "first",
                   args |-> <<syncArguments({ToUnsyncedRecord(r) : r \in getUnsynced(indexedDB[bound.db])},
                                            bound.namespace, OrUndefined(storage[bound.key]))>>,
                   key |-> bound.key, result |-> undefinedCursor]
    /\ UNCHANGED <<serviceVars, idbVars, instances, indexedDB, storage, periodicSync, validated, hookCalls,
                   applying, handles, cache, engine>>

\* props.namespace changes: the memo makes a new useIdb for the new name and
\* the effect closes the previous one.  close() is db?.close(): it closes
\* the connection if that instance has opened one (opened), which it has
\* once getUnsynced has resolved.
NamespaceChange(namespace, opened) ==
    /\ namespace # instances["first"].namespace
    /\ bound.pc # "getUnsynced" => opened
    /\ instances' = [instances EXCEPT !["first"].namespace = namespace]
    /\ bound' = [bound EXCEPT !.closed = IF bound.pc \in {"idle", "stuck"} THEN @ ELSE @ \/ opened]
    /\ lastAct' = SwitchAct("change")
    /\ UNCHANGED <<serviceVars, idbVars, indexedDB, storage, periodicSync, validated, hookCalls, applying, handles, cache, engine>>

\* The exchange call resolves and idb.put(...updated) is called on the idb
\* of the start.  Without records put returns at once; otherwise open()
\* resolves with db, and on a closed connection db.transaction throws
\* inside the async executor, whose promise nobody observes: put never
\* settles.
switchPut(records, updatedSyncCursor) ==
    LET updated == {ToIdbRecord(r) : r \in {e \in records : e.state = "updated"}} IN
    /\ bound.pc = "sync"
    /\ bound' = [bound EXCEPT !.pc = IF updated # {} /\ bound.closed THEN "stuck" ELSE "purge",
                              !.records = records, !.updatedSyncCursor = updatedSyncCursor]
    /\ indexedDB' = IF updated # {} /\ bound.closed THEN indexedDB
                    ELSE [indexedDB EXCEPT ![bound.db] = put(@, updated)]
    /\ lastAct' = SwitchAct(IF updated # {} /\ bound.closed THEN "stuck" ELSE "put")
    /\ UNCHANGED <<serviceVars, idbVars, instances, storage, periodicSync, validated, hookCalls, applying, handles, cache, engine>>

\* put has resolved: idb.purge(deleted) on the idb of the start, which
\* returns at once without ids and on a closed connection never settles
\* (getRawUnhookedRecord has an async executor too); then the cursor item
\* of the key of the start, and the finally block.
switchPurge ==
    LET deleted == {e.id : e \in {r \in bound.records : r.state = "deleted"}}
        stuck == deleted # {} /\ bound.closed
    IN
    /\ bound.pc = "purge"
    /\ bound' = IF stuck THEN [bound EXCEPT !.pc = "stuck"] ELSE NotBound
    /\ indexedDB' = IF stuck THEN indexedDB ELSE [indexedDB EXCEPT ![bound.db] = purge(@, deleted)]
    /\ storage' = IF stuck THEN storage
                  ELSE [storage EXCEPT ![bound.key] =
                           IF bound.updatedSyncCursor # undefinedCursor /\ bound.updatedSyncCursor # null
                           THEN bound.updatedSyncCursor
                           ELSE null]
    /\ syncing' = (IF stuck THEN syncing ELSE FALSE)
    /\ lastAct' = SwitchAct(IF stuck THEN "stuck" ELSE "purge")
    /\ UNCHANGED <<recordTypes, store, localStorage, cycles, timers, mounted, settled, lastFailed, lastCursor,
                   periodic, hooks, syncSettled, unsent, idbVars, instances, periodicSync,
                   validated, hookCalls, applying, handles, cache, engine>>

\* set(id, data) through the context of now.
switchSet(id) ==
    /\ indexedDB' = [indexedDB EXCEPT ![DbOf("first")] = put(@, {IdbRecord(id, "todo", FALSE, TRUE, TitleA)})]
    /\ lastAct' = SwitchAct("set")
    /\ UNCHANGED <<serviceVars, idbVars, instances, storage, periodicSync, validated, hookCalls, applying, handles,
                   bound, cache, engine>>

\* One Provider of store "a" whose namespace prop changes between n1 and n2.
SwitchInit ==
    /\ recordTypes = {"todo"}
    /\ tracker = [t \in {"todo"} |-> 0]
    /\ store = [i \in {} |-> {}]
    /\ localStorage = null
    /\ syncing = FALSE
    /\ cycles = [c \in Slots |-> IdleCycle]
    /\ timers = 0
    /\ mounted = TRUE
    /\ settled = "none"
    /\ lastFailed = NoFailure
    /\ lastCursor = undefinedCursor
    /\ syncSettled = "resolved"
    /\ unsent = {}
    /\ periodic = FALSE
    /\ periodicSync = startPeriodicSync(undefined)
    /\ hooks = FALSE
    /\ IdbConstructed
    /\ RestConstructed
    /\ instances = [p \in {"first"} |-> [name |-> "a", namespace |-> Str("n1")]]
    /\ indexedDB = [n \in {dbName("a", OrEmpty(ns)) : ns \in SwitchNamespaces} |-> [i \in {} |-> {}]]
    /\ storage = [k \in {cursorKey("a", OrEmpty(ns)) : ns \in SwitchNamespaces} |-> null]
    /\ lastAct = NoAct

SwitchNext ==
    \/ switchTrigger
    \/ switchGetUnsynced
    \/ \E namespace \in SwitchNamespaces, opened \in BOOLEAN : NamespaceChange(namespace, opened)
    \/ \E records \in InstanceResponses, updatedSyncCursor \in FaultCursors \cup {undefinedCursor} :
          switchPut(records, updatedSyncCursor)
    \/ switchPurge
    \/ \E id \in Ids : switchSet(id)

SwitchSpec == SwitchInit /\ [][SwitchNext]_vars

\* -------------------------------------------------------------------- cache

\* How many refreshes of the cache run at a time in the checked runs.
MaxRefresh == 2

\* The effect of a type's cache runs again after notify(type) has set the
\* change token: with cacheEnabled it calls api.all(), whose request is
\* made and not answered yet.
EffectRun(c) ==
    IF c.enabled THEN [c EXCEPT !.pending = Append(@, [read |-> FALSE, records |-> <<>>])] ELSE c

\* enableCache(): cacheEnabled = true, a plain variable that no effect
\* tracks.
enableCache ==
    /\ ~cache.enabled
    /\ cache' = [cache EXCEPT !.enabled = TRUE]
    /\ UNCHANGED <<serviceVars, idbVars, hostVars, periodicSync, validated, hookCalls, applying, handles, bound, engine>>

\* set(id, data) or delete(id) of the type's API: put stores the record and
\* notifies the type, the effect of its cache runs, and
\* notifyUnsyncedChanges schedules the notifier.
cachedWrite(record) ==
    /\ mounted
    /\ timers < MaxPending
    /\ Len(cache.pending) < MaxRefresh
    /\ store' = put(store, {record})
    /\ timers' = timers + 1
    /\ settled' = "resolved"
    /\ cache' = EffectRun(cache)
    /\ UNCHANGED <<recordTypes, localStorage, syncing, cycles, mounted, lastFailed, lastCursor, periodic, hooks,
                   syncSettled, unsent, idbVars, hostVars, periodicSync, validated, hookCalls, applying, handles,
                   bound, engine>>

\* request.onsuccess of the getAll of a refresh: the requests are answered
\* in the order they were made.
RefreshRead(i) ==
    /\ i \in 1..Len(cache.pending)
    /\ ~cache.pending[i].read
    /\ \A j \in 1..(i - 1) : cache.pending[j].read
    /\ cache' = [cache EXCEPT !.pending[i] = [read |-> TRUE, records |-> all(store, "todo")]]
    /\ UNCHANGED <<serviceVars, idbVars, hostVars, periodicSync, validated, hookCalls, applying, handles, bound, engine>>

\* The await of api.all() of a refresh is over and the signal is set.  With
\* hooks, all() resolves when the beforeRead hooks of its rows have, which
\* can be after a refresh that was started later; without, in the order of
\* the requests.
RefreshSet(i) ==
    /\ i \in 1..Len(cache.pending)
    /\ cache.pending[i].read
    /\ i = 1 \/ (hooks /\ DOMAIN cache.pending[1].records # {})
    /\ cache' = [cache EXCEPT !.value = cache.pending[i].records,
                              !.pending = SubSeq(@, 1, i - 1) \o SubSeq(@, i + 1, Len(@))]
    /\ UNCHANGED <<serviceVars, idbVars, hostVars, periodicSync, validated, hookCalls, applying, handles, bound, engine>>

\* The records the application writes through the type's API.
CachedRecords ==
    {IdbRecord(i, "todo", FALSE, TRUE, TitleA) : i \in Ids}
        \cup {IdbRecord(i, "todo", TRUE, TRUE, EmptyObject) : i \in Ids}

\* A store of one type, with or without hooks, whose cache is not enabled.
CacheInit ==
    /\ recordTypes = {"todo"}
    /\ tracker = [t \in {"todo"} |-> 0]
    /\ store = [i \in {} |-> {}]
    /\ localStorage = null
    /\ syncing = FALSE
    /\ cycles = [c \in Slots |-> IdleCycle]
    /\ timers = 0
    /\ mounted = TRUE
    /\ settled = "none"
    /\ lastFailed = NoFailure
    /\ lastCursor = undefinedCursor
    /\ syncSettled = "resolved"
    /\ unsent = {}
    /\ periodic = FALSE
    /\ periodicSync = startPeriodicSync(undefined)
    /\ hooks \in BOOLEAN
    /\ IdbConstructed
    /\ RestConstructed
    /\ OneInstance

CacheNext ==
    \/ enableCache
    \/ \E record \in CachedRecords : cachedWrite(record)
    \/ \E i \in 1..MaxRefresh : RefreshRead(i)
    \/ \E i \in 1..MaxRefresh : RefreshSet(i)
    \/ TimeoutRun

CacheSpec == CacheInit /\ [][CacheNext]_vars

\* ---------------------------------------------------------------- lifecycle

\* How many intervals the page hands out, and how many useIdb the memo makes,
\* in the checked runs.
MaxIntervals == 3
MaxIdbs == 2

\* The values of props.periodic in the runs of the lifecycle.
LifecycleSettings == {undefined, True, Num(0), Num(30000)}

\* A clearInterval that clears nothing.
clearIntervalNothing(intervals, handle) == intervals

\* clearInterval(handle): the interval of that handle, if there is one, is
\* no longer active.
clearInterval(intervals, handle) == intervals \ {handle}

\* unsubscribe?.(): delete subscribers[id] in the useIdb that made the
\* function; nothing when unsubscribe is undefined.
CallUnsubscribeOf(e) == e.subscribers \ {e.unsubscribe}

\* A run of the effect for the props of now, at time ms: the previous
\* subscription is removed, the callback is registered with the idb of the
\* memo under the time, and startPeriodicSync clears the interval of
\* periodicSyncInterval and sets a new one for a setting that asks for it.
EffectRuns(e, ms) ==
    LET subscription == [idb |-> e.idb, id |-> ms + 1]
        cleared == clearInterval(e.intervals, e.periodicSyncInterval)
        sets == startPeriodicSync(e.setting).interval # NoInterval
    IN [e EXCEPT !.ran = TRUE,
                 !.subscribers = CallUnsubscribeOf(e) \cup {subscription},
                 !.unsubscribe = subscription,
                 !.intervals = IF sets THEN cleared \cup {e.issuedIntervals + 1} ELSE cleared,
                 !.issuedIntervals = IF sets THEN @ + 1 ELSE @,
                 !.periodicSyncInterval = IF sets THEN e.issuedIntervals + 1 ELSE @]

\* The effect runs for the first time, after the render.
lifeEffect ==
    /\ ~engine.ran
    /\ ~engine.disposed
    /\ engine.issuedIntervals < MaxIntervals
    /\ engine' = EffectRuns(engine, now)
    /\ UNCHANGED <<serviceVars, idbVars, hostVars, periodicSync, validated, hookCalls, applying, handles, bound,
                   cache>>

\* props.namespace changes: the memo makes another useIdb and the effect
\* runs again.
lifeNamespace ==
    /\ engine.ran
    /\ ~engine.disposed
    /\ engine.idb < MaxIdbs
    /\ engine.issuedIntervals < MaxIntervals
    /\ engine' = EffectRuns([engine EXCEPT !.idb = @ + 1], now)
    /\ UNCHANGED <<serviceVars, idbVars, hostVars, periodicSync, validated, hookCalls, applying, handles, bound,
                   cache>>

\* props.periodic changes: the effect, which read it in startPeriodicSync,
\* runs again with the same idb.
lifePeriodic(setting) ==
    /\ engine.ran
    /\ ~engine.disposed
    /\ setting # engine.setting
    /\ engine.issuedIntervals < MaxIntervals
    /\ engine' = EffectRuns([engine EXCEPT !.setting = setting], now)
    /\ UNCHANGED <<serviceVars, idbVars, hostVars, periodicSync, validated, hookCalls, applying, handles, bound,
                   cache>>

\* onCleanup: unsubscribe?.() and clearInterval(periodicSyncInterval); no
\* computation of the component runs afterwards.
lifeCleanup ==
    /\ ~engine.disposed
    /\ engine' = [engine EXCEPT !.disposed = TRUE,
                                !.subscribers = CallUnsubscribeOf(engine),
                                !.intervals = clearInterval(engine.intervals, engine.periodicSyncInterval)]
    /\ UNCHANGED <<serviceVars, idbVars, hostVars, periodicSync, validated, hookCalls, applying, handles, bound,
                   cache>>

\* An active interval fires, or a notification of some useIdb calls a
\* subscriber it has: triggerSync, which starts a cycle unless one runs.
lifeTrigger(byInterval) ==
    /\ IF byInterval THEN engine.intervals # {} ELSE engine.subscribers # {}
    /\ ~syncing
    /\ syncing' = TRUE
    /\ UNCHANGED <<recordTypes, store, localStorage, cycles, timers, mounted, settled, lastFailed, lastCursor,
                   periodic, hooks, syncSettled, unsent, idbVars, hostVars, periodicSync, restVars>>

\* The cycle ends: the finally block.
lifeCycleEnds ==
    /\ syncing
    /\ syncing' = FALSE
    /\ UNCHANGED <<recordTypes, store, localStorage, cycles, timers, mounted, settled, lastFailed, lastCursor,
                   periodic, hooks, syncSettled, unsent, idbVars, hostVars, periodicSync, restVars>>

\* A mounted WireStoreService with some value of periodic.
LifecycleInit ==
    /\ recordTypes = {"todo"}
    /\ tracker = [t \in {"todo"} |-> 0]
    /\ store = [i \in {} |-> {}]
    /\ localStorage = null
    /\ syncing = FALSE
    /\ cycles = [c \in Slots |-> IdleCycle]
    /\ timers = 0
    /\ mounted = TRUE
    /\ settled = "none"
    /\ lastFailed = NoFailure
    /\ lastCursor = undefinedCursor
    /\ syncSettled = "resolved"
    /\ unsent = {}
    /\ periodic = FALSE
    /\ periodicSync = startPeriodicSync(undefined)
    /\ hooks = FALSE
    /\ IdbConstructed
    /\ OneInstance
    /\ validated = NotValidated
    /\ hookCalls = NoHookCalls(<<>>)
    /\ applying = NoApplying
    /\ handles = {}
    /\ bound = NotBound
    /\ cache = NoCache
    /\ engine \in {[NoEngine EXCEPT !.setting = setting] : setting \in LifecycleSettings}

LifecycleNext ==
    \/ Tick
    \/ lifeEffect
    \/ lifeNamespace
    \/ \E setting \in LifecycleSettings : lifePeriodic(setting)
    \/ lifeCleanup
    \/ \E byInterval \in BOOLEAN : lifeTrigger(byInterval)
    \/ lifeCycleEnds

LifecycleSpec == LifecycleInit /\ [][LifecycleNext]_vars

\* --------------------------------------------------------------- validation

\* The values validate looks at: an object with its own properties, an
\* array, a Date, a function; strings, null and undefined are as above.
Dict(props) == [kind |-> "object", props |-> props]
Arr(items) == [kind |-> "array", items |-> items]
Date == [kind |-> "Date"]
Function == [kind |-> "function"]

\* values[key]
Prop(values, key) ==
    IF values.kind = "object" /\ key \in DOMAIN values.props THEN values.props[key] ELSE undefined

\* `${input}` for the values above.
TemplateString(input) ==
    IF input.kind = "string" THEN input.s
    ELSE IF input.kind = "array"
    THEN IF Len(input.items) = 1 /\ input.items[1].kind = "string" THEN input.items[1].s ELSE ","
    ELSE IF input.kind = "object" THEN "[object Object]"
    ELSE input.kind

\* validate.enum, validate.plainObject, validate.dictionary and
\* validate.string: the message of the error thrown, "" when none is.
enum(values, key, accepted) ==
    IF TemplateString(Prop(values, key)) \notin accepted THEN key \o ": enum mismatch" ELSE ""

plainObject(values, key) ==
    IF Prop(values, key).kind # "object" THEN key \o ": expecting plain object" ELSE ""

dictionary(values, key, acceptedKeys) ==
    IF plainObject(values, key) # "" THEN plainObject(values, key)
    ELSE IF DOMAIN Prop(values, key).props \subseteq acceptedKeys THEN ""
    ELSE key \o ": unexpected field"

string(values, key, min) ==
    IF Prop(values, key).kind # "string" THEN key \o ": required"
    ELSE IF Len(Prop(values, key).s) < min THEN key \o ": minimum length"
    ELSE ""

\* The body of the forEach of validate.records for one item: the first
\* check that throws.
Item(item, acceptedTypes) ==
    IF dictionary(Dict([records |-> item]), "records", {"id", "state", "type", "data"}) # ""
    THEN dictionary(Dict([records |-> item]), "records", {"id", "state", "type", "data"})
    ELSE IF string(item, "id", 1) # "" THEN string(item, "id", 1)
    ELSE IF enum(item, "state", {"updated", "deleted"}) # "" THEN enum(item, "state", {"updated", "deleted"})
    ELSE IF enum(item, "type", acceptedTypes) # "" THEN enum(item, "type", acceptedTypes)
    ELSE plainObject(item, "data")

\* validateRecordsMetadata(records, types): validate.records throws for a
\* value that is not an array and for the first item, in array order, one
\* of whose checks throws; otherwise records is returned.
validateRecordsMetadata(records, types) ==
    IF records.kind # "array" THEN [result |-> "threw", index |-> 0]
    ELSE IF \E i \in 1..Len(records.items) : Item(records.items[i], types) # ""
    THEN [result |-> "threw",
          index |-> CHOOSE i \in 1..Len(records.items) :
                        /\ Item(records.items[i], types) # ""
                        /\ \A j \in 1..(i - 1) : Item(records.items[j], types) = ""]
    ELSE [result |-> "returned", index |-> 0]

\* An entry as the client of the README's sync function sends it.
Entry(id, state, type, data) == Dict([id |-> id, state |-> state, type |-> type, data |-> data])

\* The entries the sync function may be handed: well-formed ones, and ones
\* with one thing wrong.
EntryInputs ==
    {Entry(Str("1"), Str("updated"), Str("todo"), Dict(<<>>)),
     Entry(Str("2"), Str("deleted"), Str("todo"), Dict(<<>>)),
     Entry(Str(""), Str("updated"), Str("todo"), Dict(<<>>)),
     Entry(null, Str("updated"), Str("todo"), Dict(<<>>)),
     Entry(Str("1"), Str("removed"), Str("todo"), Dict(<<>>)),
     Entry(Str("1"), Arr(<<Str("updated")>>), Str("todo"), Dict(<<>>)),
     Entry(Str("1"), Str("updated"), Str("ghost"), Dict(<<>>)),
     Entry(Str("1"), Str("updated"), Arr(<<Str("todo")>>), Dict(<<>>)),
     Entry(Str("1"), Str("updated"), Str("todo"), null),
     Entry(Str("1"), Str("updated"), Str("todo"), Arr(<<>>)),
     Entry(Str("1"), Str("updated"), Str("todo"), Date),
     Dict([id |-> Str("1"), state |-> Str("updated"), type |-> Str("todo")]),
     Dict([state |-> Str("updated"), type |-> Str("todo"), data |-> Dict(<<>>)]),
     Dict([id |-> Str("1"), state |-> Str("updated"), type |-> Str("todo"), data |-> Dict(<<>>),
           admin |-> Str("yes")]),
     null,
     Arr(<<>>),
     Str("1")}

\* How many entries a checked call has at most.
MaxEntries == 2

\* What is handed over as records: arrays of entries, and values that are
\* no array.
RecordsInputs ==
    {Arr(items) : items \in UNION {[1..n -> EntryInputs] : n \in 0..MaxEntries}}
        \cup {undefined, Dict(<<>>)}

\* The sync function validates what it was sent.
Validate(records) ==
    /\ validated' = [records |-> records, types |-> recordTypes,
                     result |-> validateRecordsMetadata(records, recordTypes).result,
                     index |-> validateRecordsMetadata(records, recordTypes).index]
    /\ UNCHANGED <<serviceVars, idbVars, hostVars, periodicSync, hookCalls, applying, handles, bound, cache, engine>>

ValidateNext == \E records \in RecordsInputs : Validate(records)

ValidateSpec == IdbInit /\ [][ValidateNext]_vars

\* -------------------------------------------------------------------- hooks

\* How many hooks a checked store is given at most.
MaxHooks == 2

\* A hook has a function for a stage or not, and the function returns a
\* value or a promise.
HookInputs == [beforeSave : {"none", "sync", "async"}, beforeRead : {"none", "sync", "async"}]

\* hooks.filter(hook => typeof hook[stage] === "function"), as indices in
\* the order of the list.
WithStage(list, stage) == SelectSeq([i \in 1..Len(list) |-> i], LAMBDA i : list[i][stage] # "none")

\* callHooks(stage, record) up to its await: nothing for a missing or
\* soft-deleted record; otherwise map calls the functions of the stage one
\* after the other, and those that return a promise are still running.
callHooksStart(list, stage, record) ==
    IF record = undefined \/ record.deleted = TRUE
    THEN [invoked |-> <<>>, running |-> {}]
    ELSE [invoked |-> WithStage(list, stage),
          running |-> {i \in 1..Len(list) : list[i][stage] = "async"}]

\* The executor of put for one record starts: callHooks("beforeSave").
hookedPut(record) ==
    /\ hookCalls.stage = "none"
    /\ hookCalls' = [hookCalls EXCEPT
                       !.stage = "beforeSave", !.record = record,
                       !.invoked = callHooksStart(hookCalls.list, "beforeSave", record).invoked,
                       !.running = callHooksStart(hookCalls.list, "beforeSave", record).running,
                       !.rejected = FALSE, !.done = "none"]
    /\ settled' = "pending"
    /\ UNCHANGED <<recordTypes, store, localStorage, syncing, cycles, timers, mounted, lastFailed, lastCursor,
                   periodic, hooks, syncSettled, unsent, idbVars, hostVars, periodicSync, validated, applying, handles, bound, cache, engine>>

\* request.onsuccess of get(id): callHooks("beforeRead") for the row read.
hookedGet(id) ==
    /\ hookCalls.stage = "none"
    /\ hookCalls' = [hookCalls EXCEPT
                       !.stage = "beforeRead",
                       !.record = IF id \in DOMAIN store THEN store[id] ELSE undefined,
                       !.invoked = callHooksStart(hookCalls.list, "beforeRead",
                                                  IF id \in DOMAIN store THEN store[id] ELSE undefined).invoked,
                       !.running = callHooksStart(hookCalls.list, "beforeRead",
                                                  IF id \in DOMAIN store THEN store[id] ELSE undefined).running,
                       !.rejected = FALSE, !.done = "none"]
    /\ settled' = "pending"
    /\ UNCHANGED <<recordTypes, store, localStorage, syncing, cycles, timers, mounted, lastFailed, lastCursor,
                   periodic, hooks, syncSettled, unsent, idbVars, hostVars, periodicSync, validated, applying, handles, bound, cache, engine>>

\* The promise of a running hook settles.
HookSettles(h, rejects) ==
    /\ h \in hookCalls.running
    /\ hookCalls' = [hookCalls EXCEPT !.running = @ \ {h}, !.rejected = @ \/ rejects]
    /\ UNCHANGED <<serviceVars, idbVars, hostVars, periodicSync, validated, applying, handles, bound, cache, engine>>

\* A put that makes its request without awaiting callHooks.
PutAfterHooksUnawaited ==
    /\ hookCalls.stage = "beforeSave"
    /\ ~hookCalls.rejected
    /\ store' = put(store, {hookCalls.record})
    /\ hookCalls' = [hookCalls EXCEPT !.stage = "none", !.done = "persisted"]
    /\ settled' = "resolved"
    /\ UNCHANGED <<recordTypes, localStorage, syncing, cycles, timers, mounted, lastFailed, lastCursor,
                   periodic, hooks, syncSettled, unsent, idbVars, hostVars, periodicSync, validated, applying, handles, bound, cache, engine>>

\* The await of callHooks in put's executor is over, no hook having
\* rejected: the request is made and succeeds.
PutAfterHooks ==
    /\ hookCalls.stage = "beforeSave"
    /\ hookCalls.running = {}
    /\ ~hookCalls.rejected
    /\ store' = put(store, {hookCalls.record})
    /\ hookCalls' = [hookCalls EXCEPT !.stage = "none", !.done = "persisted"]
    /\ settled' = "resolved"
    /\ UNCHANGED <<recordTypes, localStorage, syncing, cycles, timers, mounted, lastFailed, lastCursor,
                   periodic, hooks, syncSettled, unsent, idbVars, hostVars, periodicSync, validated, applying, handles, bound, cache, engine>>

\* The await of callHooks in get's onsuccess is over, no hook having
\* rejected: the promise of get resolves with the data.
GetAfterHooks ==
    /\ hookCalls.stage = "beforeRead"
    /\ hookCalls.running = {}
    /\ ~hookCalls.rejected
    /\ hookCalls' = [hookCalls EXCEPT !.stage = "none", !.done = "returned"]
    /\ settled' = "resolved"
    /\ UNCHANGED <<recordTypes, store, localStorage, syncing, cycles, timers, mounted, lastFailed, lastCursor,
                   periodic, hooks, syncSettled, unsent, idbVars, hostVars, periodicSync, validated, applying, handles, bound, cache, engine>>

\* A hook has rejected: the await throws inside the async executor or
\* handler, nothing is written or returned, and the caller's promise is
\* left pending while the application goes on.
AfterHookRejected ==
    /\ hookCalls.stage # "none"
    /\ hookCalls.running = {}
    /\ hookCalls.rejected
    /\ hookCalls' = [hookCalls EXCEPT !.stage = "none", !.done = "abandoned"]
    /\ UNCHANGED <<serviceVars, idbVars, hostVars, periodicSync, validated, applying, handles, bound, cache, engine>>

\* The rows the hooked puts write.
HookedRecords ==
    {IdbRecord(i, "todo", FALSE, TRUE, TitleA) : i \in Ids}
        \cup {IdbRecord(i, "todo", TRUE, TRUE, EmptyObject) : i \in Ids}

\* The record API of a store that was given a list of hooks.
HooksInit ==
    /\ recordTypes = {"todo"}
    /\ tracker = [t \in {"todo"} |-> 0]
    /\ store = [i \in {} |-> {}]
    /\ localStorage = null
    /\ syncing = FALSE
    /\ cycles = [c \in Slots |-> IdleCycle]
    /\ timers = 0
    /\ mounted = TRUE
    /\ settled = "none"
    /\ lastFailed = NoFailure
    /\ lastCursor = undefinedCursor
    /\ syncSettled = "resolved"
    /\ unsent = {}
    /\ periodic = FALSE
    /\ periodicSync = startPeriodicSync(undefined)
    /\ hooks = TRUE
    /\ IdbConstructed
    /\ OneInstance
    /\ validated = NotValidated
    /\ engine = NoEngine
    /\ cache = NoCache
    /\ bound = NotBound
    /\ handles = {}
    /\ applying = NoApplying
    /\ hookCalls \in {NoHookCalls(list) : list \in UNION {[1..n -> HookInputs] : n \in 0..MaxHooks}}

HooksNext ==
    \/ \E record \in HookedRecords : hookedPut(record)
    \/ \E id \in Ids : hookedGet(id)
    \/ \E h \in 1..MaxHooks, rejects \in BOOLEAN : HookSettles(h, rejects)
    \/ PutAfterHooks
    \/ GetAfterHooks
    \/ AfterHookRejected

HooksSpec == HooksInit /\ [][HooksNext]_vars

\* ------------------------------------------------- applying a response

\* The exchange call resolves: put(...updated) is called and makes one
\* request per record, each in a transaction of its own.
ResponseArrives(c, records, updatedSyncCursor) ==
    /\ cycles[c].pc = "sync"
    /\ cycles' = [cycles EXCEPT ![c] =
                    [@ EXCEPT !.pc = "put",
                              !.unsynced = {},
                              !.syncCursor = undefinedCursor,
                              !.records = records,
                              !.updatedSyncCursor = updatedSyncCursor]]
    /\ applying' = [applying EXCEPT !.requests = {e \in records : e.state = "updated"},
                                    !.deletes = {}, !.put = {}, !.purged = {}]
    /\ lastFailed' = NoFailure
    /\ UNCHANGED <<recordTypes, store, localStorage, syncing, timers, mounted, settled, lastCursor, periodic,
                   hooks, idbVars, hostVars, periodicSync, validated, hookCalls, syncSettled, unsent, handles, bound, cache, engine>>

\* request.onsuccess of one put request: the row is stored.
PutRequestSuccess(e) ==
    /\ e \in applying.requests
    /\ store' = put(store, {ToIdbRecord(e)})
    /\ applying' = [applying EXCEPT !.requests = @ \ {e}, !.put = @ \cup {e}]
    /\ UNCHANGED <<recordTypes, localStorage, syncing, cycles, timers, mounted, settled, lastFailed, lastCursor,
                   periodic, hooks, idbVars, hostVars, periodicSync, validated, hookCalls, syncSettled, unsent, handles, bound, cache, engine>>

\* request.onerror of one put request: Promise.all and put reject, the
\* finally block runs; the other requests stay in flight.
PutRequestError(c, e) ==
    /\ cycles[c].pc = "put"
    /\ e \in applying.requests
    /\ applying' = [applying EXCEPT
                      !.requests = {}, !.put = {}, !.purged = {},
                      !.late = @ \cup {[op |-> "put", entry |-> r] : r \in applying.requests \ {e}}]
    /\ Finally(c)
    /\ UNCHANGED <<recordTypes, store, localStorage, timers, mounted, settled, lastFailed, lastCursor,
                   periodic, hooks, idbVars, hostVars, periodicSync, validated, hookCalls, unsent, handles, bound, cache, engine>>

\* Every put request has succeeded: put resolves and purge(deleted) is
\* called, which makes one delete request per id.
PutResolves(c) ==
    /\ cycles[c].pc = "put"
    /\ applying.requests = {}
    /\ cycles' = [cycles EXCEPT ![c].pc = "purge"]
    /\ applying' = [applying EXCEPT !.deletes = {e.id : e \in {r \in cycles[c].records : r.state = "deleted"}}]
    /\ UNCHANGED <<recordTypes, store, localStorage, syncing, timers, mounted, settled, lastFailed, lastCursor,
                   periodic, hooks, idbVars, hostVars, periodicSync, validated, hookCalls, syncSettled, unsent, handles, bound, cache, engine>>

\* request.onsuccess of one delete request: the row is gone.
DeleteRequestSuccess(id) ==
    /\ id \in applying.deletes
    /\ store' = purge(store, {id})
    /\ applying' = [applying EXCEPT !.deletes = @ \ {id}, !.purged = @ \cup {id}]
    /\ UNCHANGED <<recordTypes, localStorage, syncing, cycles, timers, mounted, settled, lastFailed, lastCursor,
                   periodic, hooks, idbVars, hostVars, periodicSync, validated, hookCalls, syncSettled, unsent, handles, bound, cache, engine>>

\* request.onerror of one delete request: purge rejects, the finally block
\* runs; the other requests stay in flight.
DeleteRequestError(c, id) ==
    /\ cycles[c].pc = "purge"
    /\ id \in applying.deletes
    /\ applying' = [applying EXCEPT
                      !.deletes = {}, !.put = {}, !.purged = {},
                      !.late = @ \cup {[op |-> "delete", entry |-> i] : i \in applying.deletes \ {id}}]
    /\ Finally(c)
    /\ UNCHANGED <<recordTypes, store, localStorage, timers, mounted, settled, lastFailed, lastCursor,
                   periodic, hooks, idbVars, hostVars, periodicSync, validated, hookCalls, unsent, handles, bound, cache, engine>>

\* A request of a put or purge that has already rejected completes.
LateRequest(r, succeeds) ==
    /\ r \in applying.late
    /\ applying' = [applying EXCEPT !.late = @ \ {r}]
    /\ store' = IF ~succeeds THEN store
                ELSE IF r.op = "put" THEN put(store, {ToIdbRecord(r.entry)})
                ELSE purge(store, {r.entry})
    /\ UNCHANGED <<recordTypes, localStorage, syncing, cycles, timers, mounted, settled, lastFailed, lastCursor,
                   periodic, hooks, idbVars, hostVars, periodicSync, validated, hookCalls, syncSettled, unsent, handles, bound, cache, engine>>

\* The entries of a response that the requests of the running cycle have
\* not applied.
Unapplied(records) ==
    {e \in records : \/ e.state = "updated" /\ e \notin applying.put
                     \/ e.state = "deleted" /\ e.id \notin applying.purged}

\* A cycle that stores the cursor without awaiting purge.
PurgeResolvesUnawaited(c) ==
    /\ cycles[c].pc = "purge"
    /\ localStorage' =
          IF cycles[c].updatedSyncCursor # undefinedCursor /\ cycles[c].updatedSyncCursor # null
          THEN cycles[c].updatedSyncCursor
          ELSE null
    /\ lastCursor' =
          IF cycles[c].updatedSyncCursor = null THEN undefinedCursor
          ELSE cycles[c].updatedSyncCursor
    /\ syncing' = FALSE
    /\ cycles' = [cycles EXCEPT ![c] = IdleCycle]
    /\ syncSettled' = "resolved"
    /\ applying' = [applying EXCEPT
                      !.deletes = {}, !.put = {}, !.purged = {},
                      !.late = @ \cup {[op |-> "delete", entry |-> i] : i \in applying.deletes},
                      !.persisted = [valid |-> TRUE, unapplied |-> Unapplied(cycles[c].records)]]
    /\ UNCHANGED <<recordTypes, store, timers, mounted, settled, lastFailed, periodic, hooks, idbVars, hostVars,
                   periodicSync, validated, hookCalls, unsent, handles, bound, cache, engine>>

\* Every delete request has succeeded: purge resolves, the cursor item is
\* stored or removed, and the finally block releases the flag.
PurgeResolves(c) ==
    /\ cycles[c].pc = "purge"
    /\ applying.deletes = {}
    /\ localStorage' =
          IF cycles[c].updatedSyncCursor # undefinedCursor /\ cycles[c].updatedSyncCursor # null
          THEN cycles[c].updatedSyncCursor
          ELSE null
    /\ lastCursor' =
          IF cycles[c].updatedSyncCursor = null THEN undefinedCursor
          ELSE cycles[c].updatedSyncCursor
    /\ syncing' = FALSE
    /\ cycles' = [cycles EXCEPT ![c] = IdleCycle]
    /\ syncSettled' = "resolved"
    /\ applying' = [applying EXCEPT
                      !.put = {}, !.purged = {},
                      !.persisted = [valid |-> TRUE, unapplied |-> Unapplied(cycles[c].records)]]
    /\ UNCHANGED <<recordTypes, store, timers, mounted, settled, lastFailed, periodic, hooks, idbVars, hostVars,
                   periodicSync, validated, hookCalls, unsent, handles, bound, cache, engine>>

\* The page goes away while a response is being applied and is loaded
\* again: the requests not yet made or completed are lost with the page.
CrashApplying ==
    /\ mounted
    /\ mounted' = FALSE
    /\ syncing' = FALSE
    /\ cycles' = [c \in Slots |-> IdleCycle]
    /\ timers' = 0
    /\ settled' = "none"
    /\ syncSettled' = "none"
    /\ lastFailed' = NoFailure
    /\ lastCursor' = undefinedCursor
    /\ applying' = [NoApplying EXCEPT !.persisted = applying.persisted]
    /\ UNCHANGED <<recordTypes, store, localStorage, periodic, hooks, unsent, idbVars, hostVars, periodicSync,
                   validated, hookCalls, handles, bound, cache, engine>>

\* The cursors of the responses applied request by request: one that is
\* stored and one that removes the item.
ApplyCursors == {null, Str("c1")}

ApplyNext ==
    \/ Mount
    \/ ManualSync
    \/ \E c \in Slots : GetUnsyncedResolve(c)
    \/ \E c \in Slots, records \in Responses, cursor \in ApplyCursors : ResponseArrives(c, records, cursor)
    \/ \E e \in applying.requests : PutRequestSuccess(e)
    \/ \E c \in Slots, e \in applying.requests : PutRequestError(c, e)
    \/ \E c \in Slots : PutResolves(c)
    \/ \E id \in Ids : DeleteRequestSuccess(id)
    \/ \E c \in Slots, id \in Ids : DeleteRequestError(c, id)
    \/ \E r \in applying.late, succeeds \in BOOLEAN : LateRequest(r, succeeds)
    \/ \E c \in Slots : PurgeResolves(c)
    \/ CrashApplying

ApplySpec == CrashInit /\ [][ApplyNext]_vars

\* -------------------------------------------------------------- properties

\* C1: at most one sync cycle is in flight: whatever triggers arrive, at most
\* one activation of triggerSync is past its guard, so at most one exchange
\* call is outstanding, and the syncing flag is set exactly while one runs.
AtMostOneCycleInFlight ==
    /\ Cardinality({c \in Slots : Active(c)}) <= 1
    /\ Cardinality({c \in Slots : cycles[c].pc = "sync"}) <= 1
    /\ syncing <=> (\E c \in Slots : Active(c))

\* An exchange call is outstanding, a local write was made after the cycle
\* read the unsynced set, and the notification of every write has already
\* run: the notifier's trigger arrived during the cycle and was dropped.
TriggerDroppedInFlight ==
    \E c \in Slots :
        cycles[c].pc = "sync" /\ cycles[c].written # {} /\ timers = 0

\* C2 (as claimed): a row written locally after the cycle read the unsynced
\* set is left as that write made it by every later step of the cycle.
LocalWriteSurvivesCycle ==
    [][\A c \in Slots :
          (cycles[c].pc \in {"sync", "purge"} /\ cycles'[c].pc # cycles[c].pc) =>
              \A id \in cycles[c].written :
                  id \in DOMAIN store' /\ store'[id] = store[id]]_vars

\* C3: a cycle whose exchange call fails writes nothing: no step of the cycle
\* before the response is applied changes a row or the cursor item, and the
\* failure itself releases the flag.
FailedExchangeChangesNothing ==
    [][\A c \in Slots :
          /\ (cycles'[c].pc # cycles[c].pc /\ cycles'[c].pc # "purge" /\ cycles[c].pc # "purge") =>
                (store' = store /\ localStorage' = localStorage)
          /\ (cycles[c].pc = "sync" /\ cycles'[c].pc = "idle") =>
                (~syncing' /\ \A d \in Slots : ~Active(d)')]_vars

\* An exchange call has failed with unsynced rows sent and a cursor stored,
\* and the engine is idle again.
ExchangeHasFailed ==
    /\ lastFailed.valid
    /\ lastFailed.ids # {}
    /\ localStorage # null
    /\ ~syncing
    /\ \A c \in Slots : ~Active(c)

\* C4: the cycle that follows a failed exchange call sends every id the failed
\* call sent, each as its row is now, with the cursor the failed call had.
FailedCycleIsRetried ==
    \A c \in Slots :
        (cycles[c].pc = "sync" /\ lastFailed.valid) =>
            /\ lastFailed.ids \subseteq {r.id : r \in cycles[c].unsynced}
            /\ cycles[c].syncCursor = lastFailed.syncCursor
            /\ \A r \in cycles[c].unsynced :
                  \/ r.id \in cycles[c].written
                  \/ r.id \in DOMAIN store /\ r = ToUnsyncedRecord(store[r.id])

\* The retry is outstanding: it sent rows, with a cursor.
RetryOutstanding ==
    \E c \in Slots :
        /\ cycles[c].pc = "sync"
        /\ lastFailed.valid
        /\ lastFailed.ids # {}
        /\ cycles[c].syncCursor # undefinedCursor

\* C5 (as claimed): the cursor handed to the exchange is the syncCursor of the
\* last applied response, whatever string it was, undefined when there was none.
CursorIsLastReturned ==
    \A c \in Slots : cycles[c].pc = "sync" => cycles[c].syncCursor = lastCursor

\* The rows a type's set and delete write.
WrittenBySet(type, id, data) == IdbRecord(id, type, FALSE, TRUE, data)

Tombstone(type, id) == IdbRecord(id, type, TRUE, TRUE, EmptyObject)

\* After set or delete the row carries the unsynced marker.
MarkedAfterLocalWrite ==
    /\ \A type \in recordTypes, id \in Ids, data \in DataInputs :
          (set(type, id, data) /\ settled' = "resolved") =>
              (id \in DOMAIN store' /\ store'[id].unsynced = TRUE)
    /\ \A type \in recordTypes, ids \in SUBSET Ids :
          softDelete(type, ids) =>
              \A id \in ids : id \in DOMAIN store' /\ store'[id].unsynced = TRUE

\* The row of an "updated" entry when its cycle ends.
SyncedRow(c, e) ==
    /\ e.id \in DOMAIN store'
    /\ store'[e.id] = IdbRecord(e.id, e.type, FALSE, FALSE, e.data)

\* C6 (as claimed): after set/delete the row is marked unsynced; at the end of
\* a cycle every id that the response lists as "updated", and that was not
\* written locally meanwhile, has a row with the response's data, not deleted
\* and not marked.
UnsyncedMarking ==
    [][/\ MarkedAfterLocalWrite
       /\ \A c \in Slots :
             (cycles[c].pc = "purge" /\ cycles'[c].pc = "idle") =>
                 \A e \in cycles[c].records :
                     (e.state = "updated" /\ e.id \notin cycles[c].written) =>
                         SyncedRow(c, e)]_vars

\* C6 (amended): the same, for the ids whose only entry in the response is the
\* "updated" one.
UnsyncedMarkingWithoutDeleteEntry ==
    [][/\ MarkedAfterLocalWrite
       /\ \A c \in Slots :
             (cycles[c].pc = "purge" /\ cycles'[c].pc = "idle") =>
                 \A e \in cycles[c].records :
                     (/\ e.state = "updated"
                      /\ e.id \notin cycles[c].written
                      /\ \A d \in cycles[c].records : d.id = e.id => d = e) =>
                         SyncedRow(c, e)]_vars

\* No cycle runs and a row is live without the marker: only an applied
\* "updated" entry writes such a row.
RowConfirmedBySync ==
    /\ \A c \in Slots : ~Active(c)
    /\ \E id \in DOMAIN store : ~store[id].unsynced /\ ~store[id].deleted

\* C7: when a cycle ends, no id that its response lists as "deleted" has a
\* row, whatever the row was before.
PurgeOnServerDelete ==
    [][\A c \in Slots :
          (cycles[c].pc = "purge" /\ cycles'[c].pc = "idle") =>
              \A e \in cycles[c].records :
                  e.state = "deleted" => e.id \notin DOMAIN store']_vars

\* A local write was made (its notification is still scheduled), every row is
\* gone and no cycle runs: a purge has removed a row that existed.
RowPurged ==
    /\ timers > 0
    /\ DOMAIN store = {}
    /\ \A c \in Slots : ~Active(c)

JSONSerializable(data) ==
    data.kind = "object" /\ \A f \in data.fields : f[2] = "string"

\* C9: get after set returns the payload that was set, when JSON represents
\* it, whatever row the id had before; the row set writes is not deleted.
SetGetRoundTrip ==
    [][\A type \in recordTypes, id \in Ids, data \in DataInputs :
          (JSONSerializable(data) /\ set(type, id, data)) =>
              /\ settled' = "resolved"
              /\ get(store', type, id) = data
              /\ store'[id].deleted = FALSE]_vars

\* The last call resolved and a row is as set writes it.
RowWrittenBySet ==
    /\ settled = "resolved"
    /\ \E id \in DOMAIN store, type \in recordTypes :
          store[id] = WrittenBySet(type, id, TitleB)

\* C10: delete resolves for any ids, with or without a row, leaves a tombstone
\* for each, and changes nothing in a store that holds these tombstones.
DeleteIdempotent ==
    [][\A type \in recordTypes, ids \in SUBSET Ids :
          softDelete(type, ids) =>
              /\ settled' = "resolved"
              /\ \A id \in ids : id \in DOMAIN store' /\ store'[id] = Tombstone(type, id)
              /\ \A id \in DOMAIN store' \ ids : id \in DOMAIN store /\ store'[id] = store[id]
              /\ (\A id \in ids : id \in DOMAIN store /\ store[id] = Tombstone(type, id)) =>
                    store' = store]_vars

\* The only row is a tombstone, written by a call that resolved.
TombstoneForMissingId ==
    /\ settled = "resolved"
    /\ DOMAIN store = {"1"}
    /\ store["1"] = Tombstone("todo", "1")
    /\ timers = 1

\* C11 (as claimed): every id written locally is eventually among the records
\* of an exchange call, with no trigger but the engine's own.
EveryLocalWriteIsSent ==
    \A id \in Ids : (id \in unsent) ~> (id \notin unsent)

\* No cycle runs and none will start unless the application acts.
EngineAtRest ==
    /\ mounted
    /\ ~syncing
    /\ \A c \in Slots : ~Active(c)
    /\ timers = 0
    /\ ~periodic

\* C11 (as claimed, for a run that ends): once the engine is at rest, every
\* local write has been in an exchange call.
AtRestEverythingSent ==
    EngineAtRest => unsent = {}

\* A step of the activation in slot c: an await of triggerSync is resumed.
CycleStep(c) ==
    \/ GetUnsyncedResolve(c)
    \/ GetUnsyncedReject(c)
    \/ SyncReject(c)
    \/ \E records \in Responses, cursor \in FaultCursors :
          \/ SyncResolve(c, records, cursor)
          \/ \E rejecting \in SUBSET Ids, failing \in SUBSET Ids :
                PutFails(c, records, cursor, rejecting, failing)
    \/ PurgeResolve(c)
    \/ \E failing \in SUBSET Ids : PurgeReject(c, failing)

\* C12 (as claimed): a cycle that has started ends, whatever fails in it, and
\* the flag is cleared.
CycleReturnsToIdle ==
    syncing ~> ~syncing

\* C12 (as claimed, for a run that ends): the flag is set only while an
\* activation of triggerSync has an await that will be resumed.
SyncingOnlyWhileInProgress ==
    syncing => \E c \in Slots : ENABLED CycleStep(c)

\* C13 (as claimed): no promise returned by triggerSync, which is what the
\* public sync() returns, rejects, whatever fails in the cycle.
SyncFailureNotPropagated ==
    syncSettled # "rejected"

\* C14 (as claimed): no call of the public API and no put of a cycle is left
\* with a promise that nothing will settle, whatever a hook does.
NoOperationPendingForever ==
    /\ settled # "pending"
    /\ \A c \in Slots : cycles[c].pc # "put"

\* C15 (as claimed): a row keeps its type as long as it is there, whatever
\* type's API writes its id and whatever a response says.
TypeNeverChanges ==
    [][\A id \in DOMAIN store \cap DOMAIN store' :
          store'[id].type = store[id].type]_vars

\* C16: a row leaves the store only in the step that ends a cycle with the
\* purge of the ids its response lists as "deleted": no set, delete, get or
\* all and no other step of a cycle removes a row.
RowRemovedOnlyByPurge ==
    [][\A id \in DOMAIN store :
          id \notin DOMAIN store' =>
              \E c \in Slots :
                  /\ cycles[c].pc = "purge"
                  /\ cycles'[c].pc = "idle"
                  /\ \E r \in cycles[c].records : r.id = id /\ r.state = "deleted"]_vars

\* A tombstone was sent, the cycle that sent it has ended with a response that
\* did not list it as "deleted", and the row is still there.
TombstoneKeptBySync ==
    /\ syncSettled = "resolved"
    /\ \A c \in Slots : ~Active(c)
    /\ \E id \in DOMAIN store : store[id].deleted = TRUE /\ id \notin unsent

\* C17: a notifier timeout is scheduled only by a set or a delete, never by a
\* step of a cycle; and a cycle is started only by onMount, by a notifier
\* timeout that runs, or by the interval.  So without an interval and without
\* local writes the end of a cycle is followed by no other cycle.
NoSyncAfterSync ==
    [][/\ timers' > timers =>
            \/ \E type \in recordTypes, id \in Ids, data \in DataInputs : set(type, id, data)
            \/ \E type \in recordTypes, ids \in SUBSET Ids : softDelete(type, ids)
       /\ (\E c \in Slots : ~Active(c) /\ Active(c)') =>
            \/ ~mounted
            \/ timers' = timers - 1
            \/ periodic]_vars

\* Without an interval and without any local call, a cycle has applied a
\* response that brought rows, and the engine is at rest.
AtRestAfterServerRows ==
    /\ EngineAtRest
    /\ syncSettled = "resolved"
    /\ settled = "none"
    /\ DOMAIN store # {}

\* C18: set and delete only schedule the notifier and call no subscriber; the
\* timeout, when it runs, calls every subscriber that is registered, those
\* after one that throws included, in every later run as well, and changes
\* neither how the write settled nor what it wrote.
NotifierDeferredAndIsolated ==
    [][/\ timers' > timers => (called' = called /\ logged' = logged /\ settled' = "resolved")
       /\ timers' < timers =>
            /\ called' = ObjectValues(subscribers)
            /\ settled' = settled
            /\ store' = store]_vars

\* A timeout has run in which a subscriber threw and a subscriber registered
\* after it was called, after a set or delete that resolved.
ThrowerDidNotStopDelivery ==
    /\ settled = "resolved"
    /\ logged # <<>>
    /\ \E i, j \in 1..Len(called) : i < j /\ called[i].throws /\ ~called[j].throws

\* C19 (as claimed): the operations that wait for the store to open wait on
\* one indexedDB.open request.
OpenIsMemoized ==
    Cardinality({ops[o].req : o \in {p \in OpSlots : ops[p].pc = "open"}}) <= 1

\* C20 (as claimed): no operation that waited on an open that failed is left
\* unsettled.
OpenFailureRejectsWaiters ==
    \A o \in OpSlots : ops[o].pc # "stuck"

\* C21 (as claimed): an operation called after close() does not use the
\* closed handle: it waits for a new one to open.
OperationAfterCloseReopens ==
    [][\A o \in OpSlots :
          (db \in closed /\ ops[o].pc = "idle" /\ ops'[o].pc # "idle") =>
              ops'[o].pc = "open"]_vars

\* C22 (as claimed): a put or purge regenerates once the token of every type
\* of which it wrote or removed a row, and the token of no other type, also
\* when one of its requests failed after others were applied.
TokenRegeneratedOncePerTouchedType ==
    [][lastOp'.kind \in {"put", "purge"} =>
          \A t \in recordTypes :
              tracker'[t] = tracker[t] + (IF t \in lastOp'.types THEN 1 ELSE 0)]_vars

\* C23: a purge whose delete requests all succeed resolves, removes exactly
\* the rows whose id is among its ids, ids without a row included, leaves
\* every other row as it was, and regenerates the token of a type only if
\* one of the rows it removed had that type.
PurgeRemovesExactlyIds ==
    [][(lastOp'.kind = "purge" /\ lastOp'.failed = {}) =>
          /\ lastOp'.outcome = "resolved"
          /\ DOMAIN store' = DOMAIN store \ lastOp'.ids
          /\ \A i \in DOMAIN store' : store'[i] = store[i]
          /\ \A t \in recordTypes :
                tracker'[t] # tracker[t] =>
                    \E i \in lastOp'.ids \cap DOMAIN store : store[i].type = t]_vars

\* A purge of an id that has no row resolved, and the row of the other id is
\* in the store.
PurgedMissingId ==
    /\ lastOp.kind = "purge"
    /\ lastOp.ids = {"1"}
    /\ lastOp.failed = {}
    /\ lastOp.types = {}
    /\ lastOp.outcome = "resolved"
    /\ "2" \in DOMAIN store

\* C24: the steps of a sync cycle that write (the put and the purge after
\* the exchange) add, change and remove no row whose id is not in the
\* response, so a pushed row that is not echoed keeps its data, deleted flag
\* and unsynced marker; and a cycle pushes every row that has the marker
\* when it reads, so that row is sent again.
CycleChangesOnlyEchoedRows ==
    [][\A c \in Slots :
          /\ (cycles[c].pc = "sync" /\ cycles'[c].pc = "purge") =>
                /\ DOMAIN store' \ {e.id : e \in cycles'[c].records}
                      = DOMAIN store \ {e.id : e \in cycles'[c].records}
                /\ \A i \in DOMAIN store \ {e.id : e \in cycles'[c].records} : store'[i] = store[i]
          /\ (cycles[c].pc = "purge" /\ cycles'[c].pc = "idle") =>
                /\ DOMAIN store' \ {e.id : e \in cycles[c].records}
                      = DOMAIN store \ {e.id : e \in cycles[c].records}
                /\ \A i \in DOMAIN store \ {e.id : e \in cycles[c].records} : store'[i] = store[i]
          /\ (cycles[c].pc = "getUnsynced" /\ cycles'[c].pc = "sync") =>
                \A i \in DOMAIN store :
                    store[i].unsynced =>
                        \E r \in cycles'[c].unsynced :
                            /\ r.id = i
                            /\ r.data = store[i].data
                            /\ (r.state = "deleted") = store[i].deleted]_vars

\* The exchange resolved with a response that has an entry for id "2" and
\* none for id "1", whose row was pushed by this cycle and not written
\* since: it still has the unsynced marker.
PushedNotEchoed ==
    \E c \in Slots :
        /\ cycles[c].pc = "purge"
        /\ {e.id : e \in cycles[c].records} = {"2"}
        /\ "1" \in DOMAIN store
        /\ store["1"].unsynced
        /\ "1" \notin cycles[c].written

\* C25: the records handed to the exchange by a cycle are the rows, of every
\* type, that have the unsynced marker when the cycle reads them, each with
\* state "deleted" if its deleted flag is true and "updated" otherwise, and
\* the namespace handed over is the Provider's namespace prop, or the empty
\* string when the prop was omitted.
ExchangeGetsUnsyncedAndNamespace ==
    [][lastAct'.kind = "sync" =>
          /\ Len(lastAct'.args) = 1
          /\ lastAct'.args[1].records =
                {WireRecord(r.id, r.type, IF r.deleted THEN "deleted" ELSE "updated", r.data) :
                    r \in {indexedDB[DbOf(lastAct'.instance)][i] :
                              i \in {j \in DOMAIN indexedDB[DbOf(lastAct'.instance)] :
                                        indexedDB[DbOf(lastAct'.instance)][j].unsynced}}}
          /\ lastAct'.args[1].namespace =
                IF instances[lastAct'.instance].namespace = undefined
                THEN ""
                ELSE instances[lastAct'.instance].namespace.s]_vars

\* A Provider mounted without a namespace called the exchange with a
\* tombstone and a row of another type.
ExchangeCalledWithBothStates ==
    /\ lastAct.kind = "sync"
    /\ instances[lastAct.instance].namespace = undefined
    /\ \E r1 \in lastAct.args[1].records, r2 \in lastAct.args[1].records :
          /\ r1.state = "deleted"
          /\ r2.state = "updated"
          /\ r2.type = "note"

\* C28 (as claimed): the cursor slot of store S in namespace N has the key
\* "S:N:sync-cursor".
CursorSlotKeyAsClaimed ==
    [][lastAct'.kind = "sync" =>
          lastAct'.key = instances[lastAct'.instance].name \o ":"
                            \o OrEmpty(instances[lastAct'.instance].namespace) \o ":sync-cursor"]_vars

\* C28: a cycle of store S in namespace N reads the cursor it sends from
\* the localStorage key "wire-store:S:N:sync-cursor" and stores or removes
\* the returned cursor under that key, changes no other key, and that key
\* names no record database.
CursorSlotKey ==
    [][lastAct'.kind = "sync" =>
          LET k == "wire-store:" \o instances[lastAct'.instance].name \o ":"
                      \o OrEmpty(instances[lastAct'.instance].namespace) \o ":sync-cursor"
          IN  /\ lastAct'.key = k
              /\ k \in DOMAIN storage
              /\ lastAct'.args[1].syncCursor = (IF storage[k] = null THEN undefinedCursor ELSE storage[k])
              /\ storage'[k] = (IF lastAct'.result = undefinedCursor THEN null ELSE lastAct'.result)
              /\ \A k2 \in DOMAIN storage \ {k} : storage'[k2] = storage[k2]
              /\ k \notin DOMAIN indexedDB]_vars

\* A cycle sent the cursor that an earlier cycle had stored, and stored the
\* one it got back.
CursorReadAndWritten ==
    /\ lastAct.kind = "sync"
    /\ lastAct.args[1].syncCursor = Str("c1")
    /\ lastAct.result = Str("c1")
    /\ storage[lastAct.key] = Str("c1")

\* C29 (as claimed): two Providers whose (store name, namespace) pairs
\* differ, an omitted namespace counting as the empty string, have different
\* database names and different cursor keys, and a set, delete or sync cycle
\* of one changes neither the database nor the cursor slot of the other.
NamespacesIsolate ==
    [][\A p \in Instances, q \in Instances :
          <<instances[p].name, OrEmpty(instances[p].namespace)>>
                # <<instances[q].name, OrEmpty(instances[q].namespace)>> =>
              /\ DbOf(p) # DbOf(q)
              /\ KeyOf(p) # KeyOf(q)
              /\ lastAct'.instance = p =>
                    /\ indexedDB'[DbOf(q)] = indexedDB[DbOf(q)]
                    /\ storage'[KeyOf(q)] = storage[KeyOf(q)]]_vars

\* C30 (as claimed): a record type that is not in the store's definition
\* makes nothing throw: a put or purge of rows of such a type, none of whose
\* requests fails, resolves and regenerates no token, and a read through
\* the API of such a type does not throw.
UnknownTypeNeverThrows ==
    [][/\ (lastOp'.kind \in {"put", "purge"} /\ lastOp'.failed = {}) =>
             /\ lastOp'.outcome = "resolved"
             /\ lastOp'.types \cap recordTypes = {} => tracker' = tracker
       /\ lastOp'.kind = "read" => lastOp'.outcome = "resolved"]_vars

\* C27: once the effect has run, an interval is set exactly when periodic is
\* true, with 60000 ms, or a number above 0, with that number; no interval is
\* set when periodic is absent (undefined or null); and for every other
\* value no interval is set and the run has logged a warning.
PeriodicTimerIffSetting ==
    periodicSync.started =>
        /\ (periodicSync.interval # NoInterval) <=>
              \/ periodicSync.setting = True
              \/ periodicSync.setting.kind = "number" /\ periodicSync.setting.n > 0
        /\ periodic <=> (periodicSync.interval # NoInterval)
        /\ periodicSync.setting = True => periodicSync.interval = 60000
        /\ (periodicSync.setting.kind = "number" /\ periodicSync.setting.n > 0) =>
              periodicSync.interval = periodicSync.setting.n
        /\ periodicSync.setting \in {undefined, null} => periodicSync.interval = NoInterval
        /\ periodicSync.setting \in {False, Num(0), Num(-1), NaN, Str("30000")} =>
              periodicSync.interval = NoInterval /\ periodicSync.warned

\* periodic was changed to NaN while mounted: the run of the effect warned
\* and left no interval.
WarnedForInvalidSetting ==
    /\ mounted
    /\ periodicSync.started
    /\ periodicSync.setting = NaN
    /\ periodicSync.warned
    /\ periodicSync.interval = NoInterval
    /\ ~periodic

\* The ids of the local writes that no exchange call which returned has
\* carried: those in no call since they were made, and those of a call that
\* is outstanding.
NotYetAcknowledged ==
    unsent \cup UNION {{r.id : r \in cycles[c].unsynced} : c \in {d \in Slots : cycles[d].pc = "sync"}}

\* C26 (as claimed): when the process crashes, at whatever point of a
\* cycle, the restarted engine is idle with the syncing flag down, and the
\* row of every local write that no returned exchange call has carried is
\* in the store with its unsynced marker.
UnsentWritesSurviveCrash ==
    [][(mounted /\ ~mounted') =>
          /\ ~syncing'
          /\ \A c \in Slots : cycles'[c].pc = "idle"
          /\ \A id \in NotYetAcknowledged : id \in DOMAIN store' /\ store'[id].unsynced]_vars

\* Whether an entry is as the claim C31 asks: a plain object with exactly
\* the fields id, state, type and data, id a non-empty string, state the
\* string "updated" or "deleted", type a string of the allow-list, data a
\* plain object.
WellFormedEntry(item, types) ==
    /\ item.kind = "object"
    /\ DOMAIN item.props = {"id", "state", "type", "data"}
    /\ item.props["id"].kind = "string"
    /\ item.props["id"].s # ""
    /\ item.props["state"] \in {Str("updated"), Str("deleted")}
    /\ item.props["type"].kind = "string"
    /\ item.props["type"].s \in types
    /\ item.props["data"].kind = "object"

\* C31 (as claimed): validateRecordsMetadata returns exactly when records
\* is an array all of whose entries are well-formed, and otherwise throws
\* for the first entry, in array order, that is not.
ValidatorAcceptsExactlyWellFormed ==
    validated.result # "none" =>
        /\ validated.result = "returned" <=>
              /\ validated.records.kind = "array"
              /\ \A i \in 1..Len(validated.records.items) :
                    WellFormedEntry(validated.records.items[i], validated.types)
        /\ (validated.result = "threw" /\ validated.records.kind = "array") =>
              /\ validated.index \in 1..Len(validated.records.items)
              /\ ~WellFormedEntry(validated.records.items[validated.index], validated.types)
              /\ \A j \in 1..(validated.index - 1) :
                    WellFormedEntry(validated.records.items[j], validated.types)

CursorOnlyAfterResponseApplied ==
    /\ [](applying.persisted.valid => applying.persisted.unapplied = {})
    /\ [][\A c \in Slots :
            (cycles[c].pc = "purge" /\ cycles'[c].pc = "idle" /\ syncSettled' = "resolved") =>
                /\ applying.requests = {} /\ applying.deletes = {}
                /\ applying.put = {e \in cycles[c].records : e.state = "updated"}
                /\ applying.purged = {e.id : e \in {r \in cycles[c].records : r.state = "deleted"}}]_vars
    /\ [][localStorage' # localStorage =>
            \E c \in Slots :
                /\ cycles[c].pc = "purge" /\ cycles'[c].pc = "idle" /\ syncSettled' = "resolved"
                /\ localStorage' = IF cycles[c].updatedSyncCursor \in {undefinedCursor, null}
                                   THEN null ELSE cycles[c].updatedSyncCursor]_vars

\* A cursor is stored by a cycle that has applied its response, a row put
\* and an id purged, while requests of an earlier put or purge that
\* rejected are still in flight.
CursorStoredAfterApply ==
    /\ localStorage # null
    /\ applying.persisted.valid
    /\ ~syncing
    /\ \E i, j \in Ids :
          /\ i \in DOMAIN store /\ store[i] = ToIdbRecord(WireRecord(i, "todo", "updated", TitleA))
          /\ j \notin DOMAIN store
    /\ applying.late # {}

\* C34: whenever a set or delete call leaves at least one record newly
\* marked unsynced in the store, an unsynced-write notification is
\* scheduled for it, whatever the outcome of the call, a delete of several
\* ids one of whose writes fails included.
UnsyncedWriteAlwaysNotified ==
    [][(\E id \in DOMAIN store' :
            /\ store'[id].unsynced = TRUE
            /\ id \notin DOMAIN store \/ store[id] # store'[id])
        => timers' = timers + 1]_vars

\* C35: registrations with the notifier are independent: a notification
\* calls exactly the callbacks that were registered and whose unsubscribe
\* function was not called yet, two registered in the same millisecond
\* included, and an unsubscribe function removes its own callback only.
RegistrationsIndependent ==
    [][/\ timers' < timers =>
            /\ \A h \in handles : \E i \in 1..Len(called') : called'[i] = h.callback
            /\ \A i \in 1..Len(called') : \E h \in handles : called'[i] = h.callback
       /\ (handles' # handles /\ handles' \subseteq handles) =>
            \A h \in handles' : \E id \in DOMAIN subscribers' : subscribers'[id] = h.callback]_vars

\* C36: a cycle is bound to the store and namespace it started with: when
\* the namespace changes during the cycle, the response is applied to the
\* record store the unsynced set was read from and the cursor is written to
\* the slot it was read from, never to those of the new namespace, and the
\* cycle still finishes and releases the syncing flag.
CycleBoundToItsNamespace ==
    /\ [][/\ lastAct'.kind \in {"put", "purge"} =>
                \A n \in DOMAIN indexedDB : n # bound.db => indexedDB'[n] = indexedDB[n]
          /\ \A k \in DOMAIN storage : storage'[k] # storage[k] => (k = bound.key /\ lastAct'.kind = "purge")
          /\ lastAct'.kind = "sync" => lastAct'.args[1].namespace = bound.namespace]_vars
    /\ [](bound.pc # "stuck")

\* C37: the reads of a type's API are scoped to the type: get(id) through
\* the API of type T returns data only when the row stored under id has type
\* T, as all() of type T does, which returns the rows of type T only.
GetIsTypeScoped ==
    \A type \in recordTypes, id \in Ids :
        /\ get(store, type, id) # undefined => (id \in DOMAIN store /\ store[id].type = type)
        /\ get(store, type, id) # undefined <=> id \in DOMAIN all(store, type)
        /\ \A i \in DOMAIN all(store, type) : store[i].type = type

\* C38: with the cache enabled, once the writes have stopped and every
\* refresh has completed, cache[T]() is the result of all() of type T: no
\* refresh overwrites the result of one started later, and the records
\* written before enableCache are in the cache.
CacheMatchesStoreAtRest ==
    (cache.enabled /\ cache.pending = <<>>) => cache.value = all(store, "todo")

\* C39: at most one periodic timer is active at any time, after any
\* sequence of namespace changes and changes of the periodic setting, and
\* after cleanup no timer and no notifier subscription of the engine is
\* left, so that no trigger of the engine starts a cycle afterwards.
OneTimerAndNoneAfterCleanup ==
    /\ [](Cardinality(engine.intervals) <= 1)
    /\ [](engine.disposed => (engine.intervals = {} /\ engine.subscribers = {}))
    /\ [][engine.disposed => ~(~syncing /\ syncing')]_vars

\* The component was cleaned up after its namespace had changed and a
\* second interval had replaced the first.
CleanedUpAfterChanges ==
    /\ engine.disposed
    /\ engine.idb > 1
    /\ engine.issuedIntervals > 1
    /\ engine.unsubscribe # NoSubscription
====
